---------------------------- MODULE Spec2Model ----------------------------
(***************************************************************************)
(* A model of gsync's synchronization engine (sync.go): destPath,          *)
(* needToCopy, excluded and sync, over the part of the local VFS backend   *)
(* (vfs/local/local.go) that the engine calls.                             *)
(*                                                                         *)
(* A Go string is a sequence of one-character strings, so that Split,      *)
(* Join, Clean and the byte order used by sort.Strings are computed and    *)
(* not assumed.  A time.Time is a number of ticks since the zero time.     *)
(***************************************************************************)
EXTENDS Integers, Sequences, FiniteSets, TLC

(***************************************************************************)
(* Bounds of the model.                                                    *)
(***************************************************************************)
\* Ticks in one second: the sub-second resolution of an mtime.
TicksPerSecond == 2
\* Largest mtime (in ticks) drawn for the inputs of needToCopy.
MaxTime == 5
\* Number of consecutive sync runs over the same source and destination.
MaxRuns == 2

(***************************************************************************)
(* Strings                                                                 *)
(***************************************************************************)
\* The byte value of a character (ASCII), which sort.Strings compares.
Code(c) ==
    CASE c = "*" -> 42
      [] c = "-" -> 45
      [] c = "." -> 46
      [] c = "/" -> 47
      [] c = "0" -> 48
      [] c = "1" -> 49
      [] c = "a" -> 97
      [] c = "b" -> 98
      [] c = "d" -> 100
      [] c = "e" -> 101
      [] c = "f" -> 102
      [] c = "o" -> 111
      [] c = "r" -> 114
      [] c = "s" -> 115
      [] c = "t" -> 116
      [] c = "x" -> 120

Min(a, b) == IF a < b THEN a ELSE b

\* Go's string comparison a < b: byte-wise lexicographic.
StrLess(a, b) ==
    \E i \in 1..(Min(Len(a), Len(b)) + 1) :
        /\ \A j \in 1..(i - 1) : a[j] = b[j]
        /\ \/ i > Len(a) /\ i <= Len(b)
           \/ i <= Len(a) /\ i <= Len(b) /\ Code(a[i]) < Code(b[i])

RECURSIVE SplitRec(_, _)
SplitRec(s, cur) ==
    IF s = <<>> THEN <<cur>>
    ELSE IF Head(s) = "/" THEN <<cur>> \o SplitRec(Tail(s), <<>>)
    ELSE SplitRec(Tail(s), Append(cur, Head(s)))

\* strings.Split(s, "/"): "" gives one empty element.
Split(s) == SplitRec(s, <<>>)

\* strings.Join(segs, "/")
RECURSIVE Join(_)
Join(segs) ==
    IF segs = <<>> THEN <<>>
    ELSE IF Len(segs) = 1 THEN segs[1]
    ELSE segs[1] \o <<"/">> \o Join(Tail(segs))

\* strings.HasSuffix(s, "/")
HasSuffixSlash(s) == Len(s) > 0 /\ s[Len(s)] = "/"

Dot == <<".">>
DotDot == <<".", ".">>

RECURSIVE CleanSegs(_, _, _)
\* The loop of filepath.Clean over the elements of a path: "" and "." are
\* dropped, ".." removes the element before it, is dropped at the root, and
\* is kept at the start of a relative path.
CleanSegs(segs, out, rooted) ==
    IF segs = <<>> THEN out
    ELSE LET v == Head(segs) IN
         IF v = <<>> \/ v = Dot THEN CleanSegs(Tail(segs), out, rooted)
         ELSE IF v = DotDot
              THEN IF Len(out) > 0 /\ out[Len(out)] # DotDot
                   THEN CleanSegs(Tail(segs), SubSeq(out, 1, Len(out) - 1), rooted)
                   ELSE IF rooted THEN CleanSegs(Tail(segs), out, rooted)
                   ELSE CleanSegs(Tail(segs), Append(out, v), rooted)
              ELSE CleanSegs(Tail(segs), Append(out, v), rooted)

\* filepath.Clean(p)
Clean(p) ==
    IF p = <<>> THEN Dot
    ELSE LET rooted == p[1] = "/"
             body == Join(CleanSegs(Split(p), <<>>, rooted))
         IN IF rooted THEN <<"/">> \o body
            ELSE IF body = <<>> THEN Dot ELSE body

\* filepath.Join(dir, name): empty elements are ignored, the rest is cleaned.
FilepathJoin(dir, name) ==
    IF dir = <<>> THEN Clean(name)
    ELSE IF name = <<>> THEN Clean(dir)
    ELSE Clean(dir \o <<"/">> \o name)

RECURSIVE StripTrailingSlashes(_)
StripTrailingSlashes(s) ==
    IF HasSuffixSlash(s) THEN StripTrailingSlashes(SubSeq(s, 1, Len(s) - 1)) ELSE s

\* path.Base(p): the last element; "." for "", "/" for a path of slashes.
PathBase(p) ==
    IF p = <<>> THEN Dot
    ELSE LET q == StripTrailingSlashes(p) IN
         IF q = <<>> THEN <<"/">>
         ELSE LET segs == Split(q) IN segs[Len(segs)]

RECURSIVE Insert(_, _)
\* One step of an insertion sort by StrLess.
Insert(x, sorted) ==
    IF sorted = <<>> THEN <<x>>
    ELSE IF StrLess(Head(sorted), x) THEN <<Head(sorted)>> \o Insert(x, Tail(sorted))
    ELSE <<x>> \o sorted

RECURSIVE SortStrings(_)
\* sort.Strings(list): the list in increasing byte order.
SortStrings(list) ==
    IF list = <<>> THEN <<>> ELSE Insert(Head(list), SortStrings(Tail(list)))

(***************************************************************************)
(* destPath (sync.go)                                                      *)
(***************************************************************************)
\* KeepElement as it would be if ".." were not filtered out.
KeepElementDotDot(v) == v # Dot /\ v # <<>>

\* The element filter of destPath's three loops.
KeepElement(v) == v # Dot /\ v # DotDot /\ v # <<>>

\* One of destPath's normalisation loops: the elements of p that are kept.
Norm(p) == SelectSeq(Split(p), KeepElement)

\* sfile[len(sdir):] panics when sdir is longer than sfile.
destPathPanics(srcdir, srcfile) == Len(Norm(srcdir)) > Len(Norm(srcfile))

\* destPath as it would be if the trailing separator were ignored and the
\* last element of srcdir always kept.
destPathKeepLast(srcdir, dstdir, srcfile) ==
    LET sdir == Norm(srcdir)
        sfile == Norm(srcfile)
    IN Join(Norm(dstdir)
            \o (IF Len(sdir) > 0 THEN <<sdir[Len(sdir)]>> ELSE <<>>)
            \o SubSeq(sfile, Len(sdir) + 1, Len(sfile)))

\* destPath as it would be if the last element of srcdir were never kept.
destPathContents(srcdir, dstdir, srcfile) ==
    Join(Norm(dstdir) \o SubSeq(Norm(srcfile), Len(Norm(srcdir)) + 1, Len(Norm(srcfile))))

destPath(srcdir, dstdir, srcfile) ==
    LET sdir == Norm(srcdir)
        sfile == Norm(srcfile)
        ddir == Norm(dstdir)
        barefile == SubSeq(sfile, Len(sdir) + 1, Len(sfile))
    IN IF HasSuffixSlash(srcdir)
       THEN Join(ddir \o barefile)
       ELSE Join(ddir
                 \o (IF Len(sdir) > 0 THEN <<sdir[Len(sdir)]>> ELSE <<>>)
                 \o barefile)


(***************************************************************************)
(* The local VFS backend (vfs/local/local.go) over a file tree.            *)
(*                                                                         *)
(* A file system is a function from nodes to entries.  A node is the       *)
(* sequence of names leading to it from the directory every path is        *)
(* resolved from (the root, see Cwd for the working directory); an entry   *)
(* is [kind, mtime, data, readable, owned]: readable says that a file can  *)
(* be opened and that a directory can be searched (its names can always be *)
(* listed), owned that the entry belongs to the user who runs gsync.       *)
(***************************************************************************)
RootNode == <<>>
\* The result of a path resolution that fails: no name is "/".
NoNode == << <<"/">> >>

Parent(node) == IF node = <<>> THEN <<>> ELSE SubSeq(node, 1, Len(node) - 1)

DirEntry(mtime) ==
    [kind |-> "dir", mtime |-> mtime, data |-> 0, readable |-> TRUE, owned |-> TRUE]
FileEntry(mtime, data) ==
    [kind |-> "file", mtime |-> mtime, data |-> data, readable |-> TRUE, owned |-> TRUE]

RECURSIVE WalkPath(_, _, _)
\* The kernel's path walk, as os.Stat sees it: every element but the last
\* must be a directory that can be searched, "" and "." stay, ".." goes up
\* (the root is its own parent), a missing name fails.
WalkPath(fs, segs, cur) ==
    IF segs = <<>> THEN cur
    ELSE IF fs[cur].kind # "dir" \/ ~fs[cur].readable THEN NoNode
    ELSE LET v == Head(segs) IN
         IF v = <<>> \/ v = Dot THEN WalkPath(fs, Tail(segs), cur)
         ELSE IF v = DotDot THEN WalkPath(fs, Tail(segs), Parent(cur))
         ELSE IF Append(cur, v) \in DOMAIN fs
              THEN WalkPath(fs, Tail(segs), Append(cur, v))
              ELSE NoNode

\* The working directory of the process: the directory w of the root in a
\* tree that has one, the root in every other tree.
Cwd(fs) == IF << <<"w">> >> \in DOMAIN fs THEN << <<"w">> >> ELSE RootNode

\* Where the path walk starts: at the root for a path that begins with the
\* separator, at the working directory for every other path.
WalkStart(fs, p) == IF Head(p) = "/" THEN RootNode ELSE Cwd(fs)

\* os.Stat(p): the node of path p, NoNode when the call fails ("" is ENOENT).
Stat(fs, p) == IF p = <<>> THEN NoNode ELSE WalkPath(fs, Split(p), WalkStart(fs, p))

RECURSIVE WalkErrno(_, _, _)
\* The error of the path walk: "nil" where WalkPath finds a node.
WalkErrno(fs, segs, cur) ==
    IF segs = <<>> THEN "nil"
    ELSE IF fs[cur].kind # "dir" THEN "ENOTDIR"
    ELSE IF ~fs[cur].readable THEN "EACCES"
    ELSE LET v == Head(segs) IN
         IF v = <<>> \/ v = Dot THEN WalkErrno(fs, Tail(segs), cur)
         ELSE IF v = DotDot THEN WalkErrno(fs, Tail(segs), Parent(cur))
         ELSE IF Append(cur, v) \in DOMAIN fs
              THEN WalkErrno(fs, Tail(segs), Append(cur, v))
              ELSE "ENOENT"

\* The error os.Stat(p) returns.
StatErrno(fs, p) == IF p = <<>> THEN "ENOENT" ELSE WalkErrno(fs, Split(p), WalkStart(fs, p))

\* LocalFileSystem.FileExists: any error of os.Stat reads as "does not exist".
FileExists(fs, p) == Stat(fs, p) # NoNode

\* LocalFileSystem.IsDir
IsDir(fs, p) == Stat(fs, p) # NoNode /\ fs[Stat(fs, p)].kind = "dir"

\* LocalFileSystem.IsDir and IsRegular return an error: os.Stat failed and
\* os.IsNotExist does not hold of its error.
IsDirErr(fs, p) == StatErrno(fs, p) \notin {"nil", "ENOENT"}

\* LocalFileSystem.IsRegular
IsRegular(fs, p) == Stat(fs, p) # NoNode /\ fs[Stat(fs, p)].kind = "file"

\* LocalFileSystem.Mtime: [ok, t]
Mtime(fs, p) ==
    IF Stat(fs, p) = NoNode THEN [ok |-> FALSE, t |-> 0]
    ELSE [ok |-> TRUE, t |-> fs[Stat(fs, p)].mtime]

\* LocalFileSystem.ReadFromFile: os.Open, [ok, data]
ReadFromFile(fs, p) ==
    IF Stat(fs, p) = NoNode \/ ~fs[Stat(fs, p)].readable THEN [ok |-> FALSE, data |-> 0]
    ELSE [ok |-> TRUE, data |-> fs[Stat(fs, p)].data]

\* filepath.Dir(p): the path up to its last separator, cleaned.
FilepathDir(p) ==
    LET segs == Split(p) IN
    IF Len(segs) <= 1 THEN Dot
    ELSE Clean(Join(SubSeq(segs, 1, Len(segs) - 1)) \o <<"/">>)

\* The file system with entry e at node, and the mtime of node's directory
\* set to now (creating or replacing a name changes its directory).
PutEntry(fs, node, e, now) ==
    [n \in DOMAIN fs \cup {node} |->
        IF n = node THEN e
        ELSE IF n = Parent(node) THEN [fs[n] EXCEPT !.mtime = now]
        ELSE fs[n]]

\* The file system after a name was created and removed again in directory dir.
TouchDir(fs, dir, now) == [fs EXCEPT ![dir].mtime = now]

\* LocalFileSystem.Mkdir: os.Mkdir(path), [ok, fs]
Mkdir(fs, p, now) ==
    LET dir == Stat(fs, FilepathDir(p))
        name == PathBase(p)
    IN IF p = <<>> \/ dir = NoNode \/ Stat(fs, p) # NoNode
       THEN [ok |-> FALSE, fs |-> fs]
       ELSE IF fs[dir].kind # "dir" \/ ~fs[dir].readable THEN [ok |-> FALSE, fs |-> fs]
       ELSE [ok |-> TRUE, fs |-> PutEntry(fs, Append(dir, name), DirEntry(now), now)]

\* LocalFileSystem.SetMtime: os.Chtimes, [ok, fs]; only the owner of an
\* entry may set its times to a given value.
SetMtime(fs, p, mtime) ==
    IF Stat(fs, p) = NoNode THEN [ok |-> FALSE, fs |-> fs]
    ELSE IF ~fs[Stat(fs, p)].owned THEN [ok |-> FALSE, fs |-> fs]
    ELSE [ok |-> TRUE, fs |-> [fs EXCEPT ![Stat(fs, p)].mtime = mtime]]

\* LocalFileSystem.WriteToFile in the default mode: a temporary file is
\* created in the directory of the path, filled, and renamed onto the path;
\* the check that an existing path is a regular file never fires (its
\* condition needs os.Stat to fail), so a directory is met by os.Rename.
WriteToFile(fs, p, data, now) ==
    LET dir == Stat(fs, FilepathDir(p))
        name == PathBase(p)
        old == Stat(fs, p)
    IN IF dir = NoNode THEN [ok |-> FALSE, fs |-> fs]
       ELSE IF fs[dir].kind # "dir" \/ ~fs[dir].readable THEN [ok |-> FALSE, fs |-> fs]
       ELSE IF p = <<>> \/ (old # NoNode /\ fs[old].kind = "dir")
            THEN [ok |-> FALSE, fs |-> TouchDir(fs, dir, now)]
       ELSE [ok |-> TRUE, fs |-> PutEntry(fs, Append(dir, name), FileEntry(now, data), now)]

\* The proper descendants of node in fs.
Below(fs, node) ==
    {m \in DOMAIN fs : Len(m) > Len(node) /\ SubSeq(m, 1, Len(node)) = node}

RECURSIVE SortSet(_)
\* The strings of a set as an increasing list (the keys of pathMap, sorted).
SortSet(S) ==
    IF S = {} THEN <<>>
    ELSE LET x == CHOOSE x \in S : \A y \in S : ~StrLess(y, x)
         IN <<x>> \o SortSet(S \ {x})

\* filepath.Walk started at top comes to node m: it read the names of the
\* directory of m, which it reached through directories it could search.
Walked(fs, top, m) ==
    \A k \in Len(top)..(Len(m) - 2) : fs[SubSeq(m, 1, k)].readable

\* LocalFileSystem.WriteToFile in the write-in-place mode (lines 355-361):
\* os.Remove deletes the path when it is a file or an empty directory (its
\* error is dropped), os.Create creates the file or fails on the directory
\* that is left; the check of line 349 never fires here either.
WriteInPlace(fs, p, data, now) ==
    LET dir == Stat(fs, FilepathDir(p))
        name == PathBase(p)
        old == Stat(fs, p)
    IN IF dir = NoNode THEN [ok |-> FALSE, fs |-> fs]
       ELSE IF fs[dir].kind # "dir" \/ ~fs[dir].readable THEN [ok |-> FALSE, fs |-> fs]
       ELSE IF p = <<>> \/ (old # NoNode /\ fs[old].kind = "dir" /\ Below(fs, old) # {})
            THEN [ok |-> FALSE, fs |-> fs]
       ELSE [ok |-> TRUE, fs |-> PutEntry(fs, Append(dir, name), FileEntry(now, data), now)]

\* LocalFileSystem.FileTree: filepath.Walk hands the callback the root as it
\* was given, and every entry below it as filepath.Join(directory, name);
\* the callback records the path whatever error comes with it.
FileTree(fs, root) ==
    LET top == Stat(fs, root) IN
    IF top = NoNode THEN <<root>>
    ELSE SortSet({root} \cup
                 {FilepathJoin(root, Join(SubSeq(m, Len(top) + 1, Len(m)))) :
                      m \in {n \in Below(fs, top) : Walked(fs, top, n)}})

(***************************************************************************)
(* needToCopy and excluded (sync.go)                                       *)
(***************************************************************************)
\* time.Time.Truncate(time.Second)
Truncate(t) == t - (t % TicksPerSecond)

\* needToCopy as it would be if the mtimes were compared untruncated.
needToCopyUntruncated(sfs, dfs, srcp, dstp) ==
    IF ~FileExists(dfs, dstp) THEN [need |-> TRUE, ok |-> TRUE]
    ELSE IF ~Mtime(sfs, srcp).ok \/ ~Mtime(dfs, dstp).ok THEN [need |-> FALSE, ok |-> FALSE]
    ELSE [need |-> Mtime(sfs, srcp).t > Mtime(dfs, dstp).t, ok |-> TRUE]

\* needToCopy as it would be if a source not older than the destination were
\* copied (!srcMtime.Before(dstMtime) for srcMtime.After(dstMtime)).
needToCopyNotBefore(sfs, dfs, srcp, dstp) ==
    IF ~FileExists(dfs, dstp) THEN [need |-> TRUE, ok |-> TRUE]
    ELSE IF ~Mtime(sfs, srcp).ok \/ ~Mtime(dfs, dstp).ok THEN [need |-> FALSE, ok |-> FALSE]
    ELSE [need |-> TicksPerSecond * (Mtime(sfs, srcp).t \div TicksPerSecond)
                     >= TicksPerSecond * (Mtime(dfs, dstp).t \div TicksPerSecond),
          ok |-> TRUE]

\* needToCopy: [need, ok]
needToCopy(sfs, dfs, srcp, dstp) ==
    IF ~FileExists(dfs, dstp) THEN [need |-> TRUE, ok |-> TRUE]
    ELSE IF ~Mtime(sfs, srcp).ok \/ ~Mtime(dfs, dstp).ok THEN [need |-> FALSE, ok |-> FALSE]
    ELSE [need |-> Truncate(Mtime(sfs, srcp).t) > Truncate(Mtime(dfs, dstp).t),
          ok |-> TRUE]

(***************************************************************************)
(* filepath.Match as excluded calls it.  The patterns of the model are made *)
(* of literal characters, "*" and "[": no pattern holds a "]", so that a    *)
(* "[" always opens a character class that is never closed, which is the   *)
(* syntax error of the model.                                              *)
(***************************************************************************)
RECURSIVE StripStars(_)
StripStars(pattern) ==
    IF pattern # <<>> /\ Head(pattern) = "*" THEN StripStars(Tail(pattern)) ELSE pattern

RECURSIVE ChunkLen(_, _)
\* scanChunk: the chunk runs up to the next "*" outside a character class.
ChunkLen(pattern, inrange) ==
    IF pattern = <<>> THEN 0
    ELSE IF Head(pattern) = "*" /\ ~inrange THEN 0
    ELSE 1 + ChunkLen(Tail(pattern), inrange \/ Head(pattern) = "[")

\* scanChunk(pattern): [star, chunk, rest]
ScanChunk(pattern) ==
    LET p == StripStars(pattern)
        n == ChunkLen(p, FALSE)
    IN [star |-> pattern # <<>> /\ Head(pattern) = "*",
        chunk |-> SubSeq(p, 1, n),
        rest |-> SubSeq(p, n + 1, Len(p))]

RECURSIVE MatchChunk(_, _, _, _)
\* matchChunk(chunk, s): [rest, ok, err].  A build that checks the whole
\* pattern (eager) goes on through the chunk after the match has failed;
\* the others return at the first character that does not match, and when
\* s is used up.
MatchChunk(chunk, s, failed, eager) ==
    IF chunk = <<>>
    THEN IF failed THEN [rest |-> <<>>, ok |-> FALSE, err |-> FALSE]
         ELSE [rest |-> s, ok |-> TRUE, err |-> FALSE]
    ELSE IF ~failed /\ s = <<>>
    THEN IF eager THEN MatchChunk(chunk, s, TRUE, eager)
         ELSE [rest |-> <<>>, ok |-> FALSE, err |-> FALSE]
    ELSE IF Head(chunk) = "["
    THEN [rest |-> <<>>, ok |-> FALSE, err |-> TRUE]
    ELSE IF failed
    THEN MatchChunk(Tail(chunk), s, TRUE, eager)
    ELSE IF Head(chunk) # Head(s)
    THEN IF eager THEN MatchChunk(Tail(chunk), Tail(s), TRUE, eager)
         ELSE [rest |-> <<>>, ok |-> FALSE, err |-> FALSE]
    ELSE MatchChunk(Tail(chunk), Tail(s), FALSE, eager)

\* The pattern holds a "[": an eager build reports it before it returns
\* false.
Malformed(pattern) == \E k \in 1..Len(pattern) : pattern[k] = "["

HasSeparator(name) == \E k \in 1..Len(name) : name[k] = "/"

RECURSIVE Match(_, _, _)
RECURSIVE MatchSkipping(_, _, _, _, _)
\* The loop of Match after a "*": the chunk is tried after skipping i+1
\* characters of name, never across a separator.
MatchSkipping(chunk, rest, name, i, eager) ==
    IF i >= Len(name) \/ name[i + 1] = "/"
    THEN [match |-> FALSE, err |-> eager /\ Malformed(rest)]
    ELSE LET m == MatchChunk(chunk, SubSeq(name, i + 2, Len(name)), FALSE, eager) IN
         IF m.ok /\ ~(rest = <<>> /\ m.rest # <<>>) THEN Match(rest, m.rest, eager)
         ELSE IF m.err THEN [match |-> FALSE, err |-> TRUE]
         ELSE MatchSkipping(chunk, rest, name, i + 1, eager)

\* filepath.Match(pattern, name): [match, err]
Match(pattern, name, eager) ==
    IF pattern = <<>> THEN [match |-> name = <<>>, err |-> FALSE]
    ELSE LET sc == ScanChunk(pattern)
             m == MatchChunk(sc.chunk, name, FALSE, eager)
         IN IF sc.star /\ sc.chunk = <<>>
            THEN [match |-> ~HasSeparator(name), err |-> FALSE]
            ELSE IF m.ok /\ (m.rest = <<>> \/ sc.rest # <<>>)
            THEN Match(sc.rest, m.rest, eager)
            ELSE IF m.err THEN [match |-> FALSE, err |-> TRUE]
            ELSE IF sc.star THEN MatchSkipping(sc.chunk, sc.rest, name, 0, eager)
            ELSE [match |-> FALSE, err |-> eager /\ Malformed(sc.rest)]

(***************************************************************************)
(* State                                                                   *)
(***************************************************************************)
VARIABLES
    opt,        \* the options of the invocation: [dryrun, exclude]
    srcpath,    \* sync's argument srcpath
    dstdir,     \* sync's argument dstdir
    srcfs,      \* the file tree behind srcvfs
    dstfs,      \* the file tree behind dstvfs
    clock,      \* the time a mutating call stamps on what it changes
    pc,         \* where sync stands: "start", "loop", "restore", "done"
    srctree,    \* sync's local srctree
    ix,         \* the index of the main loop in srctree
    dirpairs,   \* sync's local dirpairs
    rix,        \* the index ix of the restoration loop
    err,        \* what sync returned ("nil" for no error)
    calls,      \* the VFS calls of the current run, in order
    report,     \* the entries processed by the current run, with the decision
    run,        \* the number of the current run
    hist,       \* [err, calls, report] of the runs that ended before
    dstStart,   \* the destination tree when the current run started
    fnIn,       \* the arguments of a function applied on its own
    fnOut,      \* its result: [done, panic, value]
    matchEager  \* the build's filepath.Match checks the whole pattern
                \* (Go 1.16 and later) or stops where the match fails

syncVars == <<opt, srcpath, dstdir, srcfs, dstfs, clock, pc, srctree, ix,
              dirpairs, rix, err, calls, report, run, hist, dstStart>>
fnVars == <<fnIn, fnOut, matchEager>>
vars == <<syncVars, fnVars>>

\* The state of sync while a function is applied on its own.
SyncIdle ==
    /\ opt = [dryrun |-> FALSE, exclude |-> <<>>, inplace |-> FALSE]
    /\ srcpath = <<>>
    /\ dstdir = <<>>
    /\ srcfs = (RootNode :> DirEntry(0))
    /\ dstfs = (RootNode :> DirEntry(0))
    /\ clock = 0
    /\ pc = "idle"
    /\ srctree = <<>>
    /\ ix = 0
    /\ dirpairs = <<>>
    /\ rix = 0
    /\ err = "nil"
    /\ calls = <<>>
    /\ report = <<>>
    /\ run = 0
    /\ hist = <<>>
    /\ dstStart = dstfs

NotApplied == [done |-> FALSE, panic |-> FALSE, value |-> <<>>]

RECURSIVE excludedLoop(_, _, _, _)
\* The loop of excluded over opt.exclude from pattern i on: [exc, err].
excludedLoop(exclude, i, fname, eager) ==
    IF i > Len(exclude) THEN [exc |-> FALSE, err |-> FALSE]
    ELSE LET m == Match(exclude[i], fname, eager) IN
         IF m.err THEN [exc |-> FALSE, err |-> TRUE]
         ELSE IF m.match THEN [exc |-> TRUE, err |-> FALSE]
         ELSE excludedLoop(exclude, i + 1, fname, eager)

\* excluded as it would be if the patterns were matched against the whole
\* path.
excludedWholePath(exclude, pathname) ==
    excludedLoop(exclude, 1, pathname, matchEager).exc

\* excluded(pathname) under the exclusion list exclude (opt.exclude): the
\* boolean it returns.
excluded(exclude, pathname) ==
    excludedLoop(exclude, 1, PathBase(pathname), matchEager).exc

\* excluded(pathname) returns an error.
excludedErr(exclude, pathname) ==
    excludedLoop(exclude, 1, PathBase(pathname), matchEager).err

(***************************************************************************)
(* destPath applied to the paths sync hands it                             *)
(***************************************************************************)
\* The source roots of TestDestPath, and two roots with ".." after a name:
\* "d1/../d2" and "d1/d2/../../d3".
PathRoots ==
    { <<"/", "d", "1">>, <<"/", "d", "1", "/">>,
      <<".", ".", "/", "d", "1">>, <<".", ".", "/", "d", "1", "/">>,
      <<".">>, <<".", "/">>, <<".", ".">>, <<".", ".", "/">>, <<>>, <<"/">>,
      <<"d", "1", "/", ".", ".", "/", "d", "2">>,
      <<"d", "1", "/", "d", "2", "/", ".", ".", "/", ".", ".", "/", "d", "3">> }

PathDests == { <<"/", "d", "e", "s", "t">>, <<"d", "e", "s", "t", "/">>, <<".">> }

\* Paths of entries below a root: the root itself, foo, foo/bar.
PathRels == { <<>>, <<"f", "o", "o">>, <<"f", "o", "o", "/", "b", "a", "r">> }

\* The entry rel below root written as TestDestPath writes it.
RawUnder(root, rel) ==
    IF rel = <<>> THEN root
    ELSE IF HasSuffixSlash(root) THEN root \o rel
    ELSE IF root = <<>> THEN <<".", "/">> \o rel
    ELSE root \o <<"/">> \o rel

\* The entry rel below root as LocalFileSystem.FileTree returns it.
WalkUnder(root, rel) == IF rel = <<>> THEN root ELSE FilepathJoin(root, rel)

PathInit ==
    /\ SyncIdle
    /\ \E r \in PathRoots, d \in PathDests, rel \in PathRels :
          \E f \in {RawUnder(r, rel), WalkUnder(r, rel)} :
              fnIn = [srcdir |-> r, dstdir |-> d, srcfile |-> f]
    /\ fnOut = NotApplied
    /\ matchEager = FALSE

\* sync.go line 204: dst := destPath(srcpath, dstdir, src)
PathApply ==
    /\ ~fnOut.done
    /\ fnOut' = IF destPathPanics(fnIn.srcdir, fnIn.srcfile)
                THEN [done |-> TRUE, panic |-> TRUE, value |-> <<>>]
                ELSE [done |-> TRUE, panic |-> FALSE,
                      value |-> destPath(fnIn.srcdir, fnIn.dstdir, fnIn.srcfile)]
    /\ UNCHANGED <<syncVars, fnIn, matchEager>>

PathNext == PathApply

PathSpec == PathInit /\ [][PathNext]_vars

(***************************************************************************)
(* needToCopy applied to a source file and a destination path              *)
(***************************************************************************)
PathA == <<"a">>

CopySrcFs(ms) == (RootNode :> DirEntry(0)) @@ (<<PathA>> :> FileEntry(ms, 1))

CopyDstFs(md, exists) ==
    IF exists THEN (RootNode :> DirEntry(0)) @@ (<<PathA>> :> FileEntry(md, 2))
    ELSE (RootNode :> DirEntry(0))

CopyInit ==
    /\ SyncIdle
    /\ fnIn \in [srcMtime : 0..MaxTime, dstMtime : 0..MaxTime, dstExists : BOOLEAN]
    /\ fnOut = NotApplied
    /\ matchEager = FALSE

\* sync.go line 236: copyNeeded, err := needToCopy(srcvfs, dstvfs, src, dst)
CopyApply ==
    /\ ~fnOut.done
    /\ fnOut' = [done |-> TRUE, panic |-> FALSE,
                 value |-> needToCopy(CopySrcFs(fnIn.srcMtime),
                                      CopyDstFs(fnIn.dstMtime, fnIn.dstExists),
                                      PathA, PathA)]
    /\ UNCHANGED <<syncVars, fnIn, matchEager>>

CopyNext == CopyApply

CopySpec == CopyInit /\ [][CopyNext]_vars

(***************************************************************************)
(* excluded applied to a path under an exclusion list                      *)
(***************************************************************************)
\* The patterns "*.tmp", "c", "b*", and the malformed "[" and "c[".
ExclPatterns ==
    { <<"*", ".", "t", "m", "p">>, <<"c">>, <<"b", "*">>, <<"[">>, <<"c", "[">> }

\* The lists of at most MaxPatterns patterns.
MaxPatterns == 2

ExclLists ==
    UNION { [1..n -> ExclPatterns] : n \in 0..MaxPatterns }

\* The paths "/a/b/c.tmp", "/a/b.tmp/c", "c.tmp", "b.tmp/", "b", "" and "/".
ExclPaths ==
    { <<"/", "a", "/", "b", "/", "c", ".", "t", "m", "p">>,
      <<"/", "a", "/", "b", ".", "t", "m", "p", "/", "c">>,
      <<"c", ".", "t", "m", "p">>,
      <<"b", ".", "t", "m", "p", "/">>,
      <<"b">>, <<>>, <<"/">> }

ExclInit ==
    /\ SyncIdle
    /\ fnIn \in [exclude : ExclLists, pathname : ExclPaths]
    /\ fnOut = NotApplied
    /\ matchEager \in BOOLEAN

\* sync.go line 195: exc, err := excluded(src)
ExclApply ==
    /\ ~fnOut.done
    /\ fnOut' = [done |-> TRUE, panic |-> FALSE,
                 value |-> [exc |-> excluded(fnIn.exclude, fnIn.pathname),
                            err |-> excludedErr(fnIn.exclude, fnIn.pathname)]]
    /\ UNCHANGED <<syncVars, fnIn, matchEager>>

ExclNext == ExclApply

ExclSpec == ExclInit /\ [][ExclNext]_vars

(***************************************************************************)
(* LocalFileSystem.WriteToFile step by step (vfs/local/local.go), on the   *)
(* two names it touches in the directory of the destination: the           *)
(* destination itself (dst) and the temporary file (tmp).  The content of  *)
(* a file is the list of the chunks written to it; fnOut.value is          *)
(* [pc, dst, tmp, err].                                                    *)
(***************************************************************************)
\* The largest number of chunks io.Copy moves.
MaxChunks == 3

\* The content of a name that does not exist: no chunk is 0.
Absent == <<0>>

\* The complete content of a destination written by an earlier run.
OldContent == <<7, 7>>

\* The first k chunks of the data behind the reader.
Chunks(k) == [i \in 1..k |-> i]

\* WriteToFile as it would be if it always wrote in place.
WritesInPlaceAlways == TRUE

\* fs.optWriteInPlace
WritesInPlace == fnIn.inplace

WriteInit ==
    /\ SyncIdle
    /\ fnIn \in [old : {Absent, OldContent}, n : 0..MaxChunks, inplace : BOOLEAN]
    /\ fnOut = [done |-> FALSE, panic |-> FALSE,
                value |-> [pc |-> "open", dst |-> fnIn.old, tmp |-> Absent, err |-> FALSE]]
    /\ matchEager = FALSE

\* The state of the call; the call is over when it returned or the process
\* stopped.
WriteStep(v) ==
    /\ fnOut' = [done |-> v.pc \in {"returned", "stopped"}, panic |-> FALSE, value |-> v]
    /\ UNCHANGED <<syncVars, fnIn, matchEager>>

\* Lines 355-371: in place the destination is removed and created empty;
\* otherwise ioutil.TempFile creates a new empty file in its directory.
WriteOpen ==
    /\ fnOut.value.pc = "open"
    /\ WriteStep(IF WritesInPlace
                 THEN [fnOut.value EXCEPT !.pc = "copy", !.dst = <<>>]
                 ELSE [fnOut.value EXCEPT !.pc = "copy", !.tmp = <<>>])

\* Lines 357-360 and 364-367: the file cannot be created; in place the
\* destination was removed before.
WriteOpenFails ==
    /\ fnOut.value.pc = "open"
    /\ WriteStep(IF WritesInPlace
                 THEN [fnOut.value EXCEPT !.pc = "returned", !.err = TRUE, !.dst = Absent]
                 ELSE [fnOut.value EXCEPT !.pc = "returned", !.err = TRUE])

\* The file io.Copy writes to.
Written == IF WritesInPlace THEN fnOut.value.dst ELSE fnOut.value.tmp

\* Line 373: io.Copy moves the next chunk.
WriteCopyChunk ==
    /\ fnOut.value.pc = "copy"
    /\ Len(Written) < fnIn.n
    /\ WriteStep(IF WritesInPlace
                 THEN [fnOut.value EXCEPT !.dst = Chunks(Len(Written) + 1)]
                 ELSE [fnOut.value EXCEPT !.tmp = Chunks(Len(Written) + 1)])

\* Lines 373-376: io.Copy fails before the last chunk; WriteToFile returns
\* the error, and the deferred os.Remove deletes the temporary file.
WriteCopyFails ==
    /\ fnOut.value.pc = "copy"
    /\ Len(Written) < fnIn.n
    /\ WriteStep([fnOut.value EXCEPT !.pc = "returned", !.err = TRUE, !.tmp = Absent])

\* Lines 373-379: io.Copy returns nil and the file is closed; in place the
\* call returns.
WriteCopyEnds ==
    /\ fnOut.value.pc = "copy"
    /\ Len(Written) = fnIn.n
    /\ WriteStep([fnOut.value EXCEPT !.pc = IF WritesInPlace THEN "returned" ELSE "rename"])

\* Lines 379-386: os.Rename puts the temporary file in the place of the
\* destination.
WriteRename ==
    /\ fnOut.value.pc = "rename"
    /\ WriteStep([fnOut.value EXCEPT !.pc = "returned", !.dst = fnOut.value.tmp,
                                     !.tmp = Absent])

\* Lines 380-383: os.Rename fails; the deferred os.Remove deletes the
\* temporary file.
WriteRenameFails ==
    /\ fnOut.value.pc = "rename"
    /\ WriteStep([fnOut.value EXCEPT !.pc = "returned", !.err = TRUE, !.tmp = Absent])

\* The process stops inside the call: no deferred call runs.
WriteStops ==
    /\ fnOut.value.pc \in {"open", "copy", "rename"}
    /\ WriteStep([fnOut.value EXCEPT !.pc = "stopped"])

WriteNext ==
    \/ WriteOpen
    \/ WriteOpenFails
    \/ WriteCopyChunk
    \/ WriteCopyFails
    \/ WriteCopyEnds
    \/ WriteRename
    \/ WriteRenameFails
    \/ WriteStops

WriteSpec == WriteInit /\ [][WriteNext]_vars

(***************************************************************************)
(* LocalFileSystem.WriteToFile as one call, over destinations of every     *)
(* kind.  fnIn is [tree, p, data, inplace], fnOut.value [ok, fs].          *)
(***************************************************************************)
\* The trees: dest/d is absent, a regular file, an empty directory, a
\* directory with entries, or neither a file nor a directory.
KindTrees ==
    LET dest == (RootNode :> DirEntry(6)) @@ (<<<<"d", "e", "s", "t">>>> :> DirEntry(7))
        at(e) == dest @@ (<<<<"d", "e", "s", "t">>, <<"d">>>> :> e)
    IN { dest, at(FileEntry(1, 9)), at(DirEntry(1)),
         at(DirEntry(1)) @@ (<<<<"d", "e", "s", "t">>, <<"d">>, <<"a">>>> :> FileEntry(2, 9)),
         at([kind |-> "other", mtime |-> 1, data |-> 0, readable |-> TRUE, owned |-> TRUE]) }

\* The paths written: "dest/d", "dest/d/a" and "dest/s/b".
KindPaths ==
    { <<"d", "e", "s", "t", "/", "d">>, <<"d", "e", "s", "t", "/", "d", "/", "a">>,
      <<"d", "e", "s", "t", "/", "s", "/", "b">> }

\* The contents written.
KindData == {1, 2}

\* The time of the call.
KindNow == 10

KindInit ==
    /\ SyncIdle
    /\ fnIn \in [tree : KindTrees, p : KindPaths, data : KindData, inplace : BOOLEAN]
    /\ fnOut = NotApplied
    /\ matchEager = FALSE

KindApply ==
    /\ ~fnOut.done
    /\ fnOut' = [done |-> TRUE, panic |-> FALSE,
                 value |-> IF fnIn.inplace
                           THEN WriteInPlace(fnIn.tree, fnIn.p, fnIn.data, KindNow)
                           ELSE WriteToFile(fnIn.tree, fnIn.p, fnIn.data, KindNow)]
    /\ UNCHANGED <<syncVars, fnIn, matchEager>>

KindNext == KindApply

KindSpec == KindInit /\ [][KindNext]_vars

(***************************************************************************)
(* sync (sync.go)                                                          *)
(***************************************************************************)
\* The first value of the clock: later than every mtime of the trees below.
ClockStart == 10

NameD == <<"d">>
NameA == <<"a">>
NameO == <<"o">>
NameS == <<"s">>
NameB == <<"b">>
NameX == <<"-", "x">>
NameF == <<"f">>
NameDest == <<"d", "e", "s", "t">>

\* The source tree: d/a, d/o (neither file nor directory), d/s/b and -x/f;
\* ma is the mtime of d/a, readable whether d/a can be opened.
SrcTree(ma, readable) ==
    (RootNode :> DirEntry(6))
    @@ (<<NameD>> :> DirEntry(4))
    @@ (<<NameD, NameA>> :> [FileEntry(ma, 1) EXCEPT !.readable = readable])
    @@ (<<NameD, NameO>> :> [kind |-> "other", mtime |-> 1, data |-> 0,
                             readable |-> TRUE, owned |-> TRUE])
    @@ (<<NameD, NameS>> :> DirEntry(2))
    @@ (<<NameD, NameS, NameB>> :> FileEntry(1, 2))
    @@ (<<NameX>> :> DirEntry(3))
    @@ (<<NameX, NameF>> :> FileEntry(2, 3))

\* The mtimes drawn for the source file d/a and for a destination file d/a.
FileMtimes == {2, 3}

\* A destination holding only the empty directory dest.
DstEmpty == (RootNode :> DirEntry(6)) @@ (<<NameDest>> :> DirEntry(7))

\* A destination left by earlier runs: dest/d/a with mtime md and old
\* content, and the directories dest/d, dest/d/s and dest/-x.
DstStale(md) ==
    DstEmpty
    @@ (<<NameDest, NameD>> :> DirEntry(1))
    @@ (<<NameDest, NameD, NameA>> :> FileEntry(md, 9))
    @@ (<<NameDest, NameD, NameS>> :> DirEntry(1))
    @@ (<<NameDest, NameX>> :> DirEntry(1))

\* No dest at all, and dest as a regular file.
DstMissing == (RootNode :> DirEntry(6))
DstIsFile == (RootNode :> DirEntry(6)) @@ (<<NameDest>> :> FileEntry(7, 9))

DstTrees == {DstEmpty, DstMissing, DstIsFile} \cup {DstStale(md) : md \in FileMtimes}

\* The source arguments: "d", "d/", ".", "./-x", the single file "d/a" and
\* "d/o", which is neither a file nor a directory.
SrcRoots ==
    { <<"d">>, <<"d", "/">>, <<".">>, <<".", "/", "-", "x">>, <<"d", "/", "a">>,
      <<"d", "/", "o">> }

\* The exclusion lists: none, and the pattern "s".
ExcludeLists == { <<>>, << <<"s">> >> }

\* The exclusion lists with a malformed pattern: "d" followed by "[", and
\* "a[" alone.
MalformedLists == { << <<"d">>, <<"[">> >>, << <<"a", "[">> >> }

\* The source tree with a directory d/s that cannot be searched.
SrcTreeNoSearch == [SrcTree(3, TRUE) EXCEPT ![<<NameD, NameS>>].readable = FALSE]

\* A destination where dest/d is a regular file.
DstDIsFile == DstEmpty @@ (<<NameDest, NameD>> :> FileEntry(1, 9))

\* A destination left by earlier runs where dest/d/s belongs to another
\* user, who lets everyone write into it.
DstForeign == [DstStale(3) EXCEPT ![<<NameDest, NameD, NameS>>].owned = FALSE]

\* The source tree and two destination trees of a process whose working
\* directory is /w: /dest exists, and w/dest does not or does.
SrcTreeAway == SrcTree(3, TRUE) @@ (<< <<"w">> >> :> DirEntry(5))
DstAway == DstEmpty @@ (<< <<"w">> >> :> DirEntry(5))
DstTwin == DstAway @@ (<< <<"w">>, NameDest >> :> DirEntry(5))

\* The runs of the model, as [dryrun, exclude, eager, root, src, dst, dest,
\* inplace]: every
\* source root over every source and destination tree under the well-formed
\* lists (to which the build of filepath.Match makes no difference) ...
PlainRuns ==
    [dryrun : BOOLEAN, exclude : ExcludeLists, eager : {FALSE}, root : SrcRoots,
     src : {SrcTree(ma, r) : ma \in FileMtimes, r \in BOOLEAN}, dst : DstTrees,
     dest : {NameDest}, inplace : {FALSE}]

\* ... the malformed lists under both builds ...
MalformedRuns ==
    [dryrun : BOOLEAN, exclude : MalformedLists, eager : BOOLEAN,
     root : {<<"d">>, <<".">>}, src : {SrcTree(3, TRUE)}, dst : {DstEmpty},
     dest : {NameDest}, inplace : {FALSE}]

\* ... and the runs in which a call of the VFS fails: a source that cannot
\* be searched or opened, a source root below a regular file, a destination
\* with a file in the place of a directory or with a directory of another
\* user.
FailingRuns ==
    [dryrun : BOOLEAN, exclude : {<<>>}, eager : {FALSE},
     root : {<<"d">>, <<"d", "/", "a", "/", "x">>},
     src : {SrcTree(3, TRUE), SrcTree(3, FALSE), SrcTreeNoSearch},
     dst : {DstEmpty, DstDIsFile, DstForeign}, dest : {NameDest}, inplace : {FALSE}]

\* ... and the runs with the absolute arguments "/d" and "/dest", started in
\* the working directory /w.
AbsoluteRuns ==
    [dryrun : BOOLEAN, exclude : {<<>>}, eager : {FALSE}, root : {<<"/", "d">>},
     src : {SrcTreeAway}, dst : {DstAway, DstTwin}, dest : {<<"/">> \o NameDest}, inplace : {FALSE}]

\* ... and the runs with the option to write in place.
InPlaceRuns ==
    [dryrun : {FALSE}, exclude : {<<>>}, eager : {FALSE}, root : {<<"d">>, <<"d", "/", "a">>},
     src : {SrcTree(3, TRUE)}, dst : {DstEmpty, DstStale(2)}, dest : {NameDest},
     inplace : {TRUE}]

Runs == PlainRuns \cup MalformedRuns \cup FailingRuns \cup AbsoluteRuns \cup InPlaceRuns

\* The state in which gsync starts one of the runs rs.
StartOf(rs) ==
    /\ \E r \in rs :
          /\ opt = [dryrun |-> r.dryrun, exclude |-> r.exclude, inplace |-> r.inplace]
          /\ matchEager = r.eager
          /\ srcpath = r.root
          /\ srcfs = r.src
          /\ dstfs = r.dst
          /\ dstdir = r.dest
    /\ dstStart = dstfs
    /\ clock = ClockStart
    /\ pc = "start"
    /\ srctree = <<>>
    /\ ix = 0
    /\ dirpairs = <<>>
    /\ rix = 0
    /\ err = "nil"
    /\ calls = <<>>
    /\ report = <<>>
    /\ run = 1
    /\ hist = <<>>
    /\ fnIn = <<>>
    /\ fnOut = NotApplied

Init == StartOf(Runs)

\* One call of a VFS method by sync: pass is "pre", "main" or "restore".
Call(op, vfs, path, pass) == [op |-> op, vfs |-> vfs, path |-> path, pass |-> pass]

\* Lines 158-191 as they would be without the check that the destination is
\* a directory.
BeginOutcomeNoDirCheck ==
    LET c1 == <<Call("FileExists", "dst", dstdir, "pre")>>
        c3 == c1 \o <<Call("IsDir", "src", srcpath, "pre")>>
        c4 == c3 \o <<Call("FileTree", "src", srcpath, "pre")>>
    IN IF ~FileExists(dstfs, dstdir)
       THEN [calls |-> c1, err |-> "destination does not exist", tree |-> <<>>]
       ELSE IF IsDirErr(srcfs, srcpath)
       THEN [calls |-> c3, err |-> "classify", tree |-> <<>>]
       ELSE IF IsDir(srcfs, srcpath)
       THEN [calls |-> c4, err |-> "nil",
             tree |-> SortStrings(FileTree(srcfs, srcpath))]
       ELSE [calls |-> c3, err |-> "nil", tree |-> <<srcpath>>]

\* Lines 158-191 as they would be if FileTree were called for every source
\* root, directory or not.
BeginOutcomeAlwaysWalks ==
    LET c1 == <<Call("FileExists", "dst", dstdir, "pre")>>
        c2 == c1 \o <<Call("IsDir", "dst", dstdir, "pre")>>
        c3 == c2 \o <<Call("IsDir", "src", srcpath, "pre")>>
        c4 == c3 \o <<Call("FileTree", "src", srcpath, "pre")>>
    IN IF ~FileExists(dstfs, dstdir)
       THEN [calls |-> c1, err |-> "destination does not exist", tree |-> <<>>]
       ELSE IF ~IsDir(dstfs, dstdir)
       THEN [calls |-> c2, err |-> "destination is not a directory", tree |-> <<>>]
       ELSE IF IsDirErr(srcfs, srcpath)
       THEN [calls |-> c3, err |-> "classify", tree |-> <<>>]
       ELSE [calls |-> c4, err |-> "nil",
             tree |-> SortStrings(FileTree(srcfs, srcpath))]

\* Lines 158-191: the checks of the destination, the enumeration, the sort.
BeginOutcome ==
    LET c1 == <<Call("FileExists", "dst", dstdir, "pre")>>
        c2 == c1 \o <<Call("IsDir", "dst", dstdir, "pre")>>
        c3 == c2 \o <<Call("IsDir", "src", srcpath, "pre")>>
        c4 == c3 \o <<Call("FileTree", "src", srcpath, "pre")>>
    IN IF ~FileExists(dstfs, dstdir)
       THEN [calls |-> c1, err |-> "destination does not exist", tree |-> <<>>]
       ELSE IF ~IsDir(dstfs, dstdir)
       THEN [calls |-> c2, err |-> "destination is not a directory", tree |-> <<>>]
       ELSE IF IsDirErr(srcfs, srcpath)
       THEN [calls |-> c3, err |-> "classify", tree |-> <<>>]
       ELSE IF IsDir(srcfs, srcpath)
       THEN [calls |-> c4, err |-> "nil",
             tree |-> SortStrings(FileTree(srcfs, srcpath))]
       ELSE [calls |-> c3, err |-> "nil", tree |-> <<srcpath>>]

SyncBegin ==
    /\ pc = "start"
    /\ calls' = calls \o BeginOutcome.calls
    /\ err' = BeginOutcome.err
    /\ srctree' = BeginOutcome.tree
    /\ pc' = IF BeginOutcome.err = "nil" THEN "loop" ELSE "done"
    /\ ix' = 1
    /\ dirpairs' = <<>>
    /\ UNCHANGED <<opt, srcpath, dstdir, srcfs, dstfs, clock, rix, report, run,
                   hist, dstStart, fnVars>>

\* The source after a step that leaves the destination newdst.  main hands
\* sync the one LocalFileSystem as source and as destination (lines 97-110):
\* when the two arguments name places of one tree the two are one file
\* system, and what is written through the destination is there for the
\* source.
SourceAfter(newdst) == IF srcfs = dstfs THEN newdst ELSE srcfs

\* The entry of the current iteration and its destination path (line 204).
CurSrc == srctree[ix]
CurDst == destPath(srcpath, dstdir, CurSrc)

InLoop == pc = "loop" /\ ix <= Len(srctree)

\* The calls of lines 206-213.
ClassifyCalls(src) ==
    <<Call("IsDir", "src", src, "main"), Call("IsRegular", "src", src, "main")>>

\* Lines 195-198: excluded returns an error, and so does sync.
SyncBadPattern ==
    /\ InLoop
    /\ excludedErr(opt.exclude, CurSrc)
    /\ err' = "pattern"
    /\ pc' = "done"
    /\ ix' = ix + 1
    /\ UNCHANGED <<opt, srcpath, dstdir, srcfs, dstfs, clock, srctree, dirpairs,
                   rix, calls, report, run, hist, dstStart, fnVars>>

\* excluded returned false without error: lines 204-267 are reached.
NotExcluded(src) == ~excludedErr(opt.exclude, src) /\ ~excluded(opt.exclude, src)

\* Lines 206-213: IsDir returns an error (IsRegular, which reads the same
\* path, is not reached), and so does sync.
SyncClassifyFails ==
    /\ InLoop
    /\ NotExcluded(CurSrc)
    /\ IsDirErr(srcfs, CurSrc)
    /\ calls' = Append(calls, Call("IsDir", "src", CurSrc, "main"))
    /\ err' = "classify"
    /\ pc' = "done"
    /\ ix' = ix + 1
    /\ UNCHANGED <<opt, srcpath, dstdir, srcfs, dstfs, clock, srctree, dirpairs,
                   rix, report, run, hist, dstStart, fnVars>>

\* The entries of srctree below the directory p.
Descendants(p) ==
    {k \in 1..Len(srctree) :
        /\ Len(srctree[k]) > Len(p) + 1
        /\ SubSeq(srctree[k], 1, Len(p) + 1) = p \o <<"/">>}

\* Lines 195-202 as they would be if the entries below an excluded directory
\* were skipped with it.
SyncExcludedSubtree ==
    /\ InLoop
    /\ excluded(opt.exclude, CurSrc)
    /\ report' = Append(report, [src |-> CurSrc, dst |-> <<>>, decision |-> "excluded"])
    /\ ix' = ix + 1 + Cardinality(Descendants(CurSrc))
    /\ UNCHANGED <<opt, srcpath, dstdir, srcfs, dstfs, clock, pc, srctree, dirpairs,
                   rix, err, calls, run, hist, dstStart, fnVars>>

\* Lines 195-202: an excluded entry is skipped.
SyncExcluded ==
    /\ InLoop
    /\ excluded(opt.exclude, CurSrc)
    /\ report' = Append(report, [src |-> CurSrc, dst |-> <<>>, decision |-> "excluded"])
    /\ ix' = ix + 1
    /\ UNCHANGED <<opt, srcpath, dstdir, srcfs, dstfs, clock, pc, srctree, dirpairs,
                   rix, err, calls, run, hist, dstStart, fnVars>>

\* Lines 217-234 as they would be if the directory were created in a dry
\* run too.
DirOutcomeNoDryRun(src, dst) ==
    LET c0 == <<Call("FileExists", "dst", dst, "main")>>
        c1 == c0 \o <<Call("Mkdir", "dst", dst, "main")>>
        made == Mkdir(dstfs, dst, clock)
    IN IF FileExists(dstfs, dst)
       THEN [fs |-> dstfs, calls |-> c0, err |-> "nil", ticks |-> 0,
             pairs |-> <<[src |-> src, dst |-> dst]>>, decision |-> "present"]
       ELSE IF made.ok
       THEN [fs |-> made.fs, calls |-> c1, err |-> "nil", ticks |-> 1,
             pairs |-> <<[src |-> src, dst |-> dst]>>, decision |-> "mkdir"]
       ELSE [fs |-> dstfs, calls |-> c1, err |-> "mkdir", ticks |-> 1,
             pairs |-> <<>>, decision |-> "mkdir"]

\* Lines 217-234 as they would be if only a directory that had to be created
\* were recorded for the restoration pass.
DirOutcomePairsCreated(src, dst) ==
    LET c0 == <<Call("FileExists", "dst", dst, "main")>>
        c1 == c0 \o <<Call("Mkdir", "dst", dst, "main")>>
        made == Mkdir(dstfs, dst, clock)
    IN IF FileExists(dstfs, dst)
       THEN [fs |-> dstfs, calls |-> c0, err |-> "nil", ticks |-> 0,
             pairs |-> <<>>, decision |-> "present"]
       ELSE IF opt.dryrun
       THEN [fs |-> dstfs, calls |-> c0, err |-> "nil", ticks |-> 0,
             pairs |-> <<[src |-> src, dst |-> dst]>>, decision |-> "mkdir"]
       ELSE IF made.ok
       THEN [fs |-> made.fs, calls |-> c1, err |-> "nil", ticks |-> 1,
             pairs |-> <<[src |-> src, dst |-> dst]>>, decision |-> "mkdir"]
       ELSE [fs |-> dstfs, calls |-> c1, err |-> "mkdir", ticks |-> 1,
             pairs |-> <<>>, decision |-> "mkdir"]

\* Lines 217-234: a directory is created when the destination path does not
\* exist, and recorded for the restoration pass.
DirOutcome(src, dst) ==
    LET c0 == <<Call("FileExists", "dst", dst, "main")>>
        c1 == c0 \o <<Call("Mkdir", "dst", dst, "main")>>
        made == Mkdir(dstfs, dst, clock)
    IN IF FileExists(dstfs, dst)
       THEN [fs |-> dstfs, calls |-> c0, err |-> "nil", ticks |-> 0,
             pairs |-> <<[src |-> src, dst |-> dst]>>, decision |-> "present"]
       ELSE IF opt.dryrun
       THEN [fs |-> dstfs, calls |-> c0, err |-> "nil", ticks |-> 0,
             pairs |-> <<[src |-> src, dst |-> dst]>>, decision |-> "mkdir"]
       ELSE IF made.ok
       THEN [fs |-> made.fs, calls |-> c1, err |-> "nil", ticks |-> 1,
             pairs |-> <<[src |-> src, dst |-> dst]>>, decision |-> "mkdir"]
       ELSE [fs |-> dstfs, calls |-> c1, err |-> "mkdir", ticks |-> 1,
             pairs |-> <<>>, decision |-> "mkdir"]

\* SyncDir as it would be if the error of Mkdir were not returned.
SyncDirKeepsOn ==
    /\ InLoop
    /\ NotExcluded(CurSrc)
    /\ IsDir(srcfs, CurSrc)
    /\ LET o == DirOutcome(CurSrc, CurDst) IN
        /\ dstfs' = o.fs
        /\ calls' = calls \o ClassifyCalls(CurSrc) \o o.calls
        /\ clock' = clock + o.ticks
        /\ dirpairs' = dirpairs \o o.pairs
        /\ report' = Append(report, [src |-> CurSrc, dst |-> CurDst, decision |-> o.decision])
        /\ err' = o.err
        /\ pc' = "loop"
        /\ ix' = ix + 1
    /\ UNCHANGED <<opt, srcpath, dstdir, srcfs, srctree, rix, run, hist, dstStart, fnVars>>

SyncDir ==
    /\ InLoop
    /\ NotExcluded(CurSrc)
    /\ IsDir(srcfs, CurSrc)
    /\ LET o == DirOutcome(CurSrc, CurDst) IN
        /\ dstfs' = o.fs
        /\ calls' = calls \o ClassifyCalls(CurSrc) \o o.calls
        /\ clock' = clock + o.ticks
        /\ dirpairs' = dirpairs \o o.pairs
        /\ report' = Append(report, [src |-> CurSrc, dst |-> CurDst, decision |-> o.decision])
        /\ err' = o.err
        /\ pc' = IF o.err = "nil" THEN "loop" ELSE "done"
        /\ ix' = ix + 1
    /\ srcfs' = SourceAfter(dstfs')
    /\ UNCHANGED <<opt, srcpath, dstdir, srctree, rix, run, hist, dstStart, fnVars>>

\* The calls needToCopy makes (lines 84-101).
NeedToCopyCalls(src, dst) ==
    <<Call("FileExists", "dst", dst, "main")>>
    \o (IF FileExists(dstfs, dst)
        THEN <<Call("Mtime", "src", src, "main"), Call("Mtime", "dst", dst, "main")>>
        ELSE <<>>)

\* Lines 241-263 as they would be if a failure of ReadFromFile were returned
\* like the other errors.
CopyOutcomeReadFatal(src, dst) ==
    LET read == ReadFromFile(srcfs, src)
        written == IF opt.inplace THEN WriteInPlace(dstfs, dst, read.data, clock)
                   ELSE WriteToFile(dstfs, dst, read.data, clock)
        mtime == Mtime(srcfs, src)
        stamped == SetMtime(written.fs, dst, mtime.t)
        c1 == <<Call("ReadFromFile", "src", src, "main")>>
        c2 == c1 \o <<Call("WriteToFile", "dst", dst, "main")>>
        c3 == c2 \o <<Call("Mtime", "src", src, "main")>>
        c4 == c3 \o <<Call("SetMtime", "dst", dst, "main")>>
    IN IF ~read.ok
       THEN [fs |-> dstfs, calls |-> c1, err |-> "read", ticks |-> 0, decision |-> "unreadable"]
       ELSE IF ~written.ok
       THEN [fs |-> written.fs, calls |-> c2, err |-> "write", ticks |-> 1, decision |-> "copy"]
       ELSE IF ~mtime.ok
       THEN [fs |-> written.fs, calls |-> c3, err |-> "mtime", ticks |-> 1, decision |-> "copy"]
       ELSE IF ~stamped.ok
       THEN [fs |-> written.fs, calls |-> c4, err |-> "setmtime", ticks |-> 1, decision |-> "copy"]
       ELSE [fs |-> stamped.fs, calls |-> c4, err |-> "nil", ticks |-> 1, decision |-> "copy"]

\* Lines 241-263: the copy of a file that needs one, outside a dry run.
CopyOutcome(src, dst) ==
    LET read == ReadFromFile(srcfs, src)
        written == IF opt.inplace THEN WriteInPlace(dstfs, dst, read.data, clock)
                   ELSE WriteToFile(dstfs, dst, read.data, clock)
        mtime == Mtime(srcfs, src)
        stamped == SetMtime(written.fs, dst, mtime.t)
        c1 == <<Call("ReadFromFile", "src", src, "main")>>
        c2 == c1 \o <<Call("WriteToFile", "dst", dst, "main")>>
        c3 == c2 \o <<Call("Mtime", "src", src, "main")>>
        c4 == c3 \o <<Call("SetMtime", "dst", dst, "main")>>
    IN IF ~read.ok
       THEN [fs |-> dstfs, calls |-> c1, err |-> "nil", ticks |-> 0, decision |-> "unreadable"]
       ELSE IF ~written.ok
       THEN [fs |-> written.fs, calls |-> c2, err |-> "write", ticks |-> 1, decision |-> "copy"]
       ELSE IF ~mtime.ok
       THEN [fs |-> written.fs, calls |-> c3, err |-> "mtime", ticks |-> 1, decision |-> "copy"]
       ELSE IF ~stamped.ok
       THEN [fs |-> written.fs, calls |-> c4, err |-> "setmtime", ticks |-> 1, decision |-> "copy"]
       ELSE [fs |-> stamped.fs, calls |-> c4, err |-> "nil", ticks |-> 1, decision |-> "copy"]

\* Lines 235-263 as they would be if a dry run reported every regular file
\* as copied without consulting needToCopy.
FileOutcomeDryCopiesAll(src, dst) ==
    LET need == needToCopy(srcfs, dstfs, src, dst)
        c0 == NeedToCopyCalls(src, dst)
        copy == CopyOutcome(src, dst)
    IN IF opt.dryrun
       THEN [fs |-> dstfs, calls |-> c0, err |-> "nil", ticks |-> 0, decision |-> "copy"]
       ELSE IF ~need.ok
       THEN [fs |-> dstfs, calls |-> c0, err |-> "mtime", ticks |-> 0, decision |-> "failed"]
       ELSE IF ~need.need
       THEN [fs |-> dstfs, calls |-> c0, err |-> "nil", ticks |-> 0, decision |-> "unchanged"]
       ELSE [copy EXCEPT !.calls = c0 \o copy.calls]

\* Lines 235-263 as they would be if a run that is no dry run copied every
\* regular file, whatever needToCopy returned.
FileOutcomeCopiesAlways(src, dst) ==
    LET need == needToCopy(srcfs, dstfs, src, dst)
        c0 == NeedToCopyCalls(src, dst)
        copy == CopyOutcome(src, dst)
    IN IF ~need.ok
       THEN [fs |-> dstfs, calls |-> c0, err |-> "mtime", ticks |-> 0, decision |-> "failed"]
       ELSE IF opt.dryrun
       THEN [fs |-> dstfs, calls |-> c0, err |-> "nil", ticks |-> 0,
             decision |-> IF need.need THEN "copy" ELSE "unchanged"]
       ELSE [copy EXCEPT !.calls = c0 \o copy.calls]

\* Lines 235-263: a regular file is copied when needToCopy says so.
FileOutcome(src, dst) ==
    LET need == needToCopy(srcfs, dstfs, src, dst)
        c0 == NeedToCopyCalls(src, dst)
        copy == CopyOutcome(src, dst)
    IN IF ~need.ok
       THEN [fs |-> dstfs, calls |-> c0, err |-> "mtime", ticks |-> 0, decision |-> "failed"]
       ELSE IF ~need.need
       THEN [fs |-> dstfs, calls |-> c0, err |-> "nil", ticks |-> 0, decision |-> "unchanged"]
       ELSE IF opt.dryrun
       THEN [fs |-> dstfs, calls |-> c0, err |-> "nil", ticks |-> 0, decision |-> "copy"]
       ELSE [copy EXCEPT !.calls = c0 \o copy.calls]

SyncFile ==
    /\ InLoop
    /\ NotExcluded(CurSrc)
    /\ ~IsDir(srcfs, CurSrc)
    /\ IsRegular(srcfs, CurSrc)
    /\ LET o == FileOutcome(CurSrc, CurDst) IN
        /\ dstfs' = o.fs
        /\ calls' = calls \o ClassifyCalls(CurSrc) \o o.calls
        /\ clock' = clock + o.ticks
        /\ report' = Append(report, [src |-> CurSrc, dst |-> CurDst, decision |-> o.decision])
        /\ err' = o.err
        /\ pc' = IF o.err = "nil" THEN "loop" ELSE "done"
        /\ ix' = ix + 1
    /\ srcfs' = SourceAfter(dstfs')
    /\ UNCHANGED <<opt, srcpath, dstdir, srctree, dirpairs, rix, run, hist,
                   dstStart, fnVars>>

\* What is in a file when a part of the content data has been written.
PartOf(data) == 0 - data

\* The ways a copy is cut short after WriteToFile began to write: io.Copy
\* returns an error, the process is stopped inside io.Copy, or it is stopped
\* after WriteToFile returned and before SetMtime was called.
Interruptions == {"copy fails", "stopped in copy", "stopped before SetMtime"}

\* The destination an interrupted copy leaves (local.go lines 355-384).
\* In place the part written is in the destination file.  In the default
\* mode it is in the temporary file, which ioutil.TempFile named after the
\* destination and which the deferred os.Remove deletes unless the process
\* stopped.  After WriteToFile returned the destination file is complete,
\* with the time of the write as its mtime.
InterruptedFs(how, dst, data) ==
    LET dir == Stat(dstfs, FilepathDir(dst))
        tmp == Append(dir, PathBase(dst) \o <<"0">>)
    IN IF how = "stopped before SetMtime"
       THEN IF opt.inplace THEN WriteInPlace(dstfs, dst, data, clock).fs
            ELSE WriteToFile(dstfs, dst, data, clock).fs
       ELSE IF opt.inplace THEN WriteInPlace(dstfs, dst, PartOf(data), clock).fs
       ELSE IF how = "copy fails" THEN TouchDir(dstfs, dir, clock)
       ELSE PutEntry(dstfs, tmp, FileEntry(clock, PartOf(data)), clock)

\* Lines 241-261 cut short: the copy of a file that needs one began to write
\* and did not reach SetMtime; sync returns the error of WriteToFile, or the
\* process is gone.
SyncFileInterrupted ==
    /\ InLoop
    /\ NotExcluded(CurSrc)
    /\ ~IsDir(srcfs, CurSrc)
    /\ IsRegular(srcfs, CurSrc)
    /\ ~opt.dryrun
    /\ run < MaxRuns
    /\ needToCopy(srcfs, dstfs, CurSrc, CurDst).ok
    /\ needToCopy(srcfs, dstfs, CurSrc, CurDst).need
    /\ ReadFromFile(srcfs, CurSrc).ok
    /\ IF opt.inplace THEN WriteInPlace(dstfs, CurDst, 0, clock).ok
       ELSE WriteToFile(dstfs, CurDst, 0, clock).ok
    /\ \E how \in Interruptions :
          /\ dstfs' = InterruptedFs(how, CurDst, ReadFromFile(srcfs, CurSrc).data)
          /\ err' = IF how = "copy fails" THEN "write" ELSE "stopped"
    /\ calls' = calls \o ClassifyCalls(CurSrc) \o NeedToCopyCalls(CurSrc, CurDst)
                      \o SubSeq(CopyOutcome(CurSrc, CurDst).calls, 1, 2)
    /\ clock' = clock + 1
    /\ report' = Append(report, [src |-> CurSrc, dst |-> CurDst, decision |-> "copy"])
    /\ pc' = "done"
    /\ ix' = ix + 1
    /\ srcfs' = SourceAfter(dstfs')
    /\ UNCHANGED <<opt, srcpath, dstdir, srctree, dirpairs, rix, run, hist,
                   dstStart, fnVars>>

\* Lines 264-267 as they would be if an entry that is neither a directory
\* nor a regular file ended the run with an error.
SyncOtherFatal ==
    /\ InLoop
    /\ NotExcluded(CurSrc)
    /\ ~IsDirErr(srcfs, CurSrc)
    /\ ~IsDir(srcfs, CurSrc)
    /\ ~IsRegular(srcfs, CurSrc)
    /\ calls' = calls \o ClassifyCalls(CurSrc)
    /\ report' = Append(report, [src |-> CurSrc, dst |-> CurDst, decision |-> "warned"])
    /\ ix' = ix + 1
    /\ err' = "other"
    /\ pc' = "done"
    /\ UNCHANGED <<opt, srcpath, dstdir, srcfs, dstfs, clock, srctree, dirpairs,
                   rix, run, hist, dstStart, fnVars>>

\* Lines 264-267: neither a directory nor a regular file: a warning.
SyncOther ==
    /\ InLoop
    /\ NotExcluded(CurSrc)
    /\ ~IsDirErr(srcfs, CurSrc)
    /\ ~IsDir(srcfs, CurSrc)
    /\ ~IsRegular(srcfs, CurSrc)
    /\ calls' = calls \o ClassifyCalls(CurSrc)
    /\ report' = Append(report, [src |-> CurSrc, dst |-> CurDst, decision |-> "warned"])
    /\ ix' = ix + 1
    /\ UNCHANGED <<opt, srcpath, dstdir, srcfs, dstfs, clock, pc, srctree, dirpairs,
                   rix, err, run, hist, dstStart, fnVars>>

\* Lines 268-275: the main loop ends; the restoration loop starts at the last
\* recorded pair, and is skipped in a dry run.
SyncMainDone ==
    /\ pc = "loop"
    /\ ix > Len(srctree)
    /\ pc' = IF opt.dryrun THEN "done" ELSE "restore"
    /\ rix' = Len(dirpairs)
    /\ UNCHANGED <<opt, srcpath, dstdir, srcfs, dstfs, clock, srctree, ix, dirpairs,
                   err, calls, report, run, hist, dstStart, fnVars>>

\* The pair an iteration of the restoration loop takes, as it would be if
\* the loop ran from the first pair to the last.
RestorePairForward(i) == dirpairs[Len(dirpairs) - i + 1]

\* Lines 276-277: the pair iteration ix of the restoration loop takes.
RestorePair(i) == dirpairs[i]

\* Lines 279-286 as they would be if the mtime were set on the source
\* directory.
RestoreOutcomeStampsSource(pair) ==
    LET mtime == Mtime(srcfs, pair.src)
        c1 == <<Call("Mtime", "src", pair.src, "restore")>>
        c2 == c1 \o <<Call("SetMtime", "src", pair.src, "restore")>>
    IN IF ~mtime.ok THEN [fs |-> dstfs, calls |-> c1, err |-> "mtime"]
       ELSE [fs |-> dstfs, calls |-> c2, err |-> "nil"]

\* Lines 279-286: the mtime of the source directory is set on the destination.
RestoreOutcome(pair) ==
    LET mtime == Mtime(srcfs, pair.src)
        stamped == SetMtime(dstfs, pair.dst, mtime.t)
        c1 == <<Call("Mtime", "src", pair.src, "restore")>>
        c2 == c1 \o <<Call("SetMtime", "dst", pair.dst, "restore")>>
    IN IF ~mtime.ok THEN [fs |-> dstfs, calls |-> c1, err |-> "mtime"]
       ELSE IF ~stamped.ok THEN [fs |-> dstfs, calls |-> c2, err |-> "setmtime"]
       ELSE [fs |-> stamped.fs, calls |-> c2, err |-> "nil"]

SyncRestoreDir ==
    /\ pc = "restore"
    /\ rix >= 1
    /\ LET o == RestoreOutcome(RestorePair(rix)) IN
        /\ dstfs' = o.fs
        /\ calls' = calls \o o.calls
        /\ err' = o.err
        /\ pc' = IF o.err = "nil" THEN "restore" ELSE "done"
    /\ rix' = rix - 1
    /\ srcfs' = SourceAfter(dstfs')
    /\ UNCHANGED <<opt, srcpath, dstdir, clock, srctree, ix, dirpairs, report,
                   run, hist, dstStart, fnVars>>

\* Line 290: return nil.
SyncReturn ==
    /\ pc = "restore"
    /\ rix = 0
    /\ pc' = "done"
    /\ UNCHANGED <<opt, srcpath, dstdir, srcfs, dstfs, clock, srctree, ix, dirpairs,
                   rix, err, calls, report, run, hist, dstStart, fnVars>>

\* gsync is run again with the same arguments over what the run left.
NextRun ==
    /\ pc = "done"
    /\ run < MaxRuns
    /\ hist' = Append(hist, [err |-> err, calls |-> calls, report |-> report,
                             dirpairs |-> dirpairs])
    /\ run' = run + 1
    /\ dstStart' = dstfs
    /\ clock' = clock + 1
    /\ pc' = "start"
    /\ srctree' = <<>>
    /\ ix' = 0
    /\ dirpairs' = <<>>
    /\ rix' = 0
    /\ err' = "nil"
    /\ calls' = <<>>
    /\ report' = <<>>
    /\ UNCHANGED <<opt, srcpath, dstdir, srcfs, dstfs, fnVars>>

\* The runs in which source and destination are places of one tree: the
\* sources "d" and "." with the destinations "-x" (beside d) and "d/s"
\* (inside d), all inside ".".
OverlapRuns ==
    [dryrun : BOOLEAN, exclude : {<<>>}, eager : {FALSE}, root : {<<"d">>, <<".">>},
     src : {SrcTree(3, TRUE)}, dst : {SrcTree(3, TRUE)},
     dest : {NameX, <<"d", "/", "s">>}, inplace : {FALSE}]

OverlapInit == StartOf(Runs \cup OverlapRuns)

\* gsync -n was run as a preview; gsync is run again with the same arguments
\* and without -n over the same source and destination.
RunForReal ==
    /\ pc = "done"
    /\ opt.dryrun
    /\ run < MaxRuns
    /\ opt' = [opt EXCEPT !.dryrun = FALSE]
    /\ hist' = Append(hist, [err |-> err, calls |-> calls, report |-> report,
                             dirpairs |-> dirpairs])
    /\ run' = run + 1
    /\ dstStart' = dstfs
    /\ clock' = clock + 1
    /\ pc' = "start"
    /\ srctree' = <<>>
    /\ ix' = 0
    /\ dirpairs' = <<>>
    /\ rix' = 0
    /\ err' = "nil"
    /\ calls' = <<>>
    /\ report' = <<>>
    /\ UNCHANGED <<srcpath, dstdir, srcfs, dstfs, fnVars>>

Next ==
    \/ SyncBegin
    \/ SyncFileInterrupted
    \/ SyncBadPattern
    \/ SyncExcluded
    \/ SyncClassifyFails
    \/ SyncDir
    \/ SyncFile
    \/ SyncOther
    \/ SyncMainDone
    \/ SyncRestoreDir
    \/ SyncReturn
    \/ NextRun

Spec == Init /\ [][Next]_vars

\* sync over every run, those within one tree included.
OverlapSpec == OverlapInit /\ [][Next]_vars

\* A preview followed by the real run: the first run is a dry run.
PreviewInit == Init /\ opt.dryrun

PreviewNext ==
    \/ SyncBegin
    \/ SyncBadPattern
    \/ SyncExcluded
    \/ SyncClassifyFails
    \/ SyncDir
    \/ SyncFile
    \/ SyncOther
    \/ SyncMainDone
    \/ SyncRestoreDir
    \/ SyncReturn
    \/ RunForReal

PreviewSpec == PreviewInit /\ [][PreviewNext]_vars

(***************************************************************************)
(* FileExists and FileTree of the two backends, called on one VFS object   *)
(* (vfs/local/local.go, vfs/gdrive/gdrive.go).  The Google Drive backend   *)
(* reaches the drive through gdrive_path: Stat and ListDir find an object  *)
(* by the names of its path, fail with "object not found" when there is    *)
(* none, and fail otherwise when the drive cannot be reached (offline).    *)
(* fnOut.value is [fileSlice, log]: the field fileSlice of the object and  *)
(* the calls made so far with their results.                               *)
(***************************************************************************)
\* The number of calls made on the object.
MaxCalls == 2

\* The object a Google Drive path names: the elements of the path that are
\* not empty (splitPath), NoNode when there is no such object.
GdriveObject(tree, p) ==
    LET node == SelectSeq(Split(p), LAMBDA v : v # <<>>) IN
    IF node \in DOMAIN tree THEN node ELSE NoNode

\* GdriveFileSystem.FileExists: [exists, err]
GdriveFileExists(tree, online, p) ==
    IF ~online THEN [exists |-> FALSE, err |-> TRUE]
    ELSE [exists |-> GdriveObject(tree, p) # NoNode, err |-> FALSE]

\* LocalFileSystem.FileExists: [exists, err]
LocalFileExists(tree, p) == [exists |-> FileExists(tree, p), err |-> FALSE]

\* The paths the loop of GdriveFileSystem.FileTree appends for the
\* directory top: filepath.Join(dir, title) for every object below it.
GdriveListed(tree, top) ==
    SortSet({FilepathJoin(Join(top), Join(SubSeq(m, Len(top) + 1, Len(m)))) :
                 m \in Below(tree, top)})

\* GdriveFileSystem.FileTree on an object whose fileSlice is given:
\* [ok, fileSlice], the paths appended to fileSlice, which is then sorted
\* and returned.
GdriveFileTree(fileSlice, tree, online, root) ==
    LET top == GdriveObject(tree, root) IN
    IF ~online \/ top = NoNode THEN [ok |-> FALSE, fileSlice |-> fileSlice]
    ELSE IF tree[top].kind # "dir" THEN [ok |-> FALSE, fileSlice |-> fileSlice]
    ELSE [ok |-> TRUE, fileSlice |-> SortStrings(fileSlice \o GdriveListed(tree, top))]

\* The paths handed to FileExists: "d/a", "d/s/b", "d/x" (no such name) and
\* "d/a/x" (below a regular file).
VfsPaths ==
    { <<"d", "/", "a">>, <<"d", "/", "s", "/", "b">>, <<"d", "/", "x">>,
      <<"d", "/", "a", "/", "x">> }

\* The roots handed to FileTree: "d", "-x" and "d/s".
VfsRoots == { <<"d">>, <<"-", "x">>, <<"d", "/", "s">> }

VfsInit ==
    /\ SyncIdle
    /\ fnIn \in [backend : {"local", "gdrive"}, tree : {SrcTree(3, TRUE), SrcTreeNoSearch},
                  online : BOOLEAN]
    /\ fnOut = [done |-> FALSE, panic |-> FALSE, value |-> [fileSlice |-> <<>>, log |-> <<>>]]
    /\ matchEager = FALSE

\* The call is logged; the object keeps its fileSlice.
VfsLogged(fileSlice, entry) ==
    /\ fnOut' = [done |-> Len(fnOut.value.log) + 1 = MaxCalls, panic |-> FALSE,
                 value |-> [fileSlice |-> fileSlice,
                            log |-> Append(fnOut.value.log, entry)]]
    /\ UNCHANGED <<syncVars, fnIn, matchEager>>

\* sync.go lines 159, 219 and 84: a call of FileExists.
VfsFileExists ==
    /\ ~fnOut.done
    /\ \E p \in VfsPaths :
          LET r == IF fnIn.backend = "local" THEN LocalFileExists(fnIn.tree, p)
                   ELSE GdriveFileExists(fnIn.tree, fnIn.online, p)
          IN VfsLogged(fnOut.value.fileSlice,
                       [op |-> "FileExists", path |-> p, exists |-> r.exists,
                        err |-> r.err, list |-> <<>>])

\* sync.go line 182: a call of FileTree.
VfsFileTree ==
    /\ ~fnOut.done
    /\ \E root \in VfsRoots :
          LET g == GdriveFileTree(fnOut.value.fileSlice, fnIn.tree, fnIn.online, root) IN
          IF fnIn.backend = "local"
          THEN VfsLogged(fnOut.value.fileSlice,
                         [op |-> "FileTree", path |-> root, exists |-> FALSE,
                          err |-> FALSE, list |-> FileTree(fnIn.tree, root)])
          ELSE VfsLogged(g.fileSlice,
                         [op |-> "FileTree", path |-> root, exists |-> FALSE,
                          err |-> ~g.ok, list |-> IF g.ok THEN g.fileSlice ELSE <<>>])

VfsNext ==
    \/ VfsFileExists
    \/ VfsFileTree

VfsSpec == VfsInit /\ [][VfsNext]_vars

(***************************************************************************)
(* Properties of needToCopy and destPath                                   *)
(***************************************************************************)
\* The whole seconds of a time.
Seconds(t) == t \div TicksPerSecond

\* C1: needToCopy returns true if and only if the destination does not
\* exist or the source mtime, in whole seconds, is strictly later than the
\* destination mtime, in whole seconds; it never fails on existing files.
C1_NeedToCopyIff ==
    fnOut.done =>
        /\ fnOut.value.ok
        /\ fnOut.value.need <=>
              \/ ~fnIn.dstExists
              \/ Seconds(fnIn.srcMtime) > Seconds(fnIn.dstMtime)

\* A destination that exists, with a source later by less than a second
\* inside the same second: no copy.
C1_Witness ==
    /\ fnOut.done
    /\ fnIn.dstExists
    /\ fnIn.srcMtime > fnIn.dstMtime
    /\ Seconds(fnIn.srcMtime) = Seconds(fnIn.dstMtime)
    /\ ~fnOut.value.need

\* The elements of a path that are neither empty nor "." nor "..".
Segments(p) == SelectSeq(Split(p), LAMBDA v : v \notin {<<>>, <<".">>, <<".", ".">>})

IsPrefix(pre, s) == Len(pre) <= Len(s) /\ SubSeq(s, 1, Len(pre)) = pre

\* s without its first Len(pre) elements.
DropPrefix(s, pre) == SubSeq(s, Len(pre) + 1, Len(s))

\* The source path lies under the source root, element by element.
UnderRoot == IsPrefix(Segments(fnIn.srcdir), Segments(fnIn.srcfile))

\* C2: with a trailing separator on sourceRoot, destPath is the elements of
\* destRoot followed by the elements of sourcePath beyond sourceRoot, joined
\* by single separators; destPath("/d1/", "/dest", "/d1/foo") = "dest/foo".
C2_TrailingSlashContents ==
    (fnOut.done /\ HasSuffixSlash(fnIn.srcdir) /\ UnderRoot) =>
        /\ ~fnOut.panic
        /\ fnOut.value =
              Join(Segments(fnIn.dstdir)
                   \o DropPrefix(Segments(fnIn.srcfile), Segments(fnIn.srcdir)))
        /\ fnIn = [srcdir |-> <<"/", "d", "1", "/">>,
                   dstdir |-> <<"/", "d", "e", "s", "t">>,
                   srcfile |-> <<"/", "d", "1", "/", "f", "o", "o">>]
              => fnOut.value = <<"d", "e", "s", "t", "/", "f", "o", "o">>

C2_Witness ==
    /\ fnOut.done
    /\ fnIn = [srcdir |-> <<"/", "d", "1", "/">>,
               dstdir |-> <<"/", "d", "e", "s", "t">>,
               srcfile |-> <<"/", "d", "1", "/", "f", "o", "o">>]
    /\ fnOut.value = <<"d", "e", "s", "t", "/", "f", "o", "o">>

\* The last element of a list as a list, empty for the empty list.
LastOf(s) == IF s = <<>> THEN <<>> ELSE <<s[Len(s)]>>

\* C3: without a trailing separator on sourceRoot, destPath is the elements
\* of destRoot, then the last element of sourceRoot if it has one, then the
\* elements of sourcePath beyond sourceRoot;
\* destPath("/d1", "/dest", "/d1/foo") = "dest/d1/foo".
C3_NoSlashKeepsDirectory ==
    (fnOut.done /\ ~HasSuffixSlash(fnIn.srcdir) /\ UnderRoot) =>
        /\ ~fnOut.panic
        /\ fnOut.value =
              Join(Segments(fnIn.dstdir)
                   \o LastOf(Segments(fnIn.srcdir))
                   \o DropPrefix(Segments(fnIn.srcfile), Segments(fnIn.srcdir)))
        /\ fnIn = [srcdir |-> <<"/", "d", "1">>,
                   dstdir |-> <<"/", "d", "e", "s", "t">>,
                   srcfile |-> <<"/", "d", "1", "/", "f", "o", "o">>]
              => fnOut.value = <<"d", "e", "s", "t", "/", "d", "1", "/", "f", "o", "o">>

C3_Witness ==
    /\ fnOut.done
    /\ fnIn = [srcdir |-> <<"/", "d", "1">>,
               dstdir |-> <<"/", "d", "e", "s", "t">>,
               srcfile |-> <<"/", "d", "1", "/", "f", "o", "o">>]
    /\ fnOut.value = <<"d", "e", "s", "t", "/", "d", "1", "/", "f", "o", "o">>

\* The degenerate source roots: "", ".", "./", "/", "..", "../".
DegenerateRoots ==
    { <<>>, <<".">>, <<".", "/">>, <<"/">>, <<".", ".">>, <<".", ".", "/">> }

\* C4: for a degenerate sourceRoot destPath adds no component for the root:
\* the result is the elements of destRoot followed by the elements of
\* sourcePath; destPath(".", "/dest", "./foo/bar") = "dest/foo/bar".
C4_DegenerateRootAddsNothing ==
    (fnOut.done /\ fnIn.srcdir \in DegenerateRoots) =>
        /\ ~fnOut.panic
        /\ fnOut.value = Join(Segments(fnIn.dstdir) \o Segments(fnIn.srcfile))
        /\ fnIn = [srcdir |-> <<".">>,
                   dstdir |-> <<"/", "d", "e", "s", "t">>,
                   srcfile |-> <<".", "/", "f", "o", "o", "/", "b", "a", "r">>]
              => fnOut.value = <<"d", "e", "s", "t", "/", "f", "o", "o", "/", "b", "a", "r">>

\* Every degenerate root is met; this one is the example of the claim.
C4_Witness ==
    /\ fnOut.done
    /\ fnIn = [srcdir |-> <<".">>,
               dstdir |-> <<"/", "d", "e", "s", "t">>,
               srcfile |-> <<".", "/", "f", "o", "o", "/", "b", "a", "r">>]
    /\ fnOut.value = <<"d", "e", "s", "t", "/", "f", "o", "o", "/", "b", "a", "r">>

(***************************************************************************)
(* Properties of sync                                                      *)
(***************************************************************************)
\* The list srctree exists: the run got past the enumeration.
Enumerated == pc \in {"loop", "restore", "done"} /\ srctree # <<>>

\* Entry j of srctree lies inside the directory that entry i of srctree is.
InsideEntry(j, i) ==
    /\ IsDir(srcfs, srctree[i])
    /\ Stat(srcfs, srctree[j]) \in Below(srcfs, Stat(srcfs, srctree[i]))

\* The entries are processed in the order of srctree, which is the byte
\* order of the path strings.
ProcessedInSortedOrder ==
    Enumerated =>
        /\ \A i, j \in 1..Len(srctree) : i < j => ~StrLess(srctree[j], srctree[i])
        /\ Len(report) <= Len(srctree)
        /\ \A k \in 1..Len(report) : report[k].src = srctree[k]

\* C5: sync processes the entries in the byte order of their path strings,
\* and in that order every directory comes strictly before every entry
\* inside it.
C5_DirectoryBeforeDescendants ==
    /\ ProcessedInSortedOrder
    /\ Enumerated =>
          \A i, j \in 1..Len(srctree) : InsideEntry(j, i) => i < j

\* The SetMtime calls of the restoration pass, in order.
RestoreCalls == SelectSeq(calls, LAMBDA c : c.pass = "restore" /\ c.op = "SetMtime")

\* C6: the restoration pass of a run that is no dry run takes the recorded
\* pairs in the exact reverse of the order of recording, one SetMtime for
\* each, and all of them when the run returns without error.
C6_RestoreReverseOnce ==
    (~opt.dryrun /\ pc \in {"restore", "done"}) =>
        /\ Len(RestoreCalls) <= Len(dirpairs)
        /\ \A k \in 1..Len(RestoreCalls) :
              RestoreCalls[k].path = dirpairs[Len(dirpairs) - k + 1].dst
        /\ pc = "restore" => Len(RestoreCalls) = Len(dirpairs) - rix
        /\ (pc = "done" /\ err = "nil") => Len(RestoreCalls) = Len(dirpairs)

\* A run that returned without error after restoring three directories.
C6_Witness ==
    /\ ~opt.dryrun
    /\ pc = "done"
    /\ err = "nil"
    /\ Len(dirpairs) >= 3
    /\ Len(RestoreCalls) = Len(dirpairs)
    /\ RestoreCalls[1].path = dirpairs[Len(dirpairs)].dst

\* Recorded pair j is a directory inside the directory of recorded pair i.
InsidePair(j, i) ==
    Stat(srcfs, dirpairs[j].src) \in Below(srcfs, Stat(srcfs, dirpairs[i].src))

\* No destination entry is created or written after the first SetMtime of
\* the restoration pass.
NoWriteAfterRestore ==
    \A p, q \in 1..Len(calls) :
        (p < q /\ calls[p].pass = "restore" /\ calls[p].op = "SetMtime")
            => calls[q].op \notin {"Mkdir", "WriteToFile"}

\* C7: a destination directory is restored only after all the directories
\* recorded after it, its descendants among them, and after every Mkdir and
\* WriteToFile of the run.
C7_RestoreBottomUp ==
    ~opt.dryrun =>
        /\ \A k \in 1..Len(RestoreCalls) :
              RestoreCalls[k].path = dirpairs[Len(dirpairs) - k + 1].dst
        /\ \A i, j \in 1..Len(dirpairs) : InsidePair(j, i) => j > i
        /\ NoWriteAfterRestore

\* A run that is no dry run has returned without error.
Succeeded == pc = "done" /\ err = "nil" /\ ~opt.dryrun

\* Every directory of the entry set that is not excluded exists in the
\* destination with the mtime of the source directory.
DirMtimesEqual ==
    \A k \in 1..Len(srctree) :
        (IsDir(srcfs, srctree[k]) /\ ~excluded(opt.exclude, srctree[k])) =>
            LET dst == destPath(srcpath, dstdir, srctree[k]) IN
            /\ FileExists(dstfs, dst)
            /\ Mtime(dstfs, dst).t = Mtime(srcfs, srctree[k]).t

\* Restored destination directory k2 lies inside restored directory k1.
NestedRestore(k2, k1) ==
    Stat(dstfs, RestoreCalls[k2].path)
        \in Below(dstfs, Stat(dstfs, RestoreCalls[k1].path))

\* C8: after a run that is no dry run and returns without error, every
\* destination directory of a source directory that is not excluded exists
\* with the mtime of its source, and a nested directory was restored
\* strictly before its parent.
C8_DirectoriesRestored ==
    Succeeded =>
        /\ DirMtimesEqual
        /\ \A k1, k2 \in 1..Len(RestoreCalls) : NestedRestore(k2, k1) => k2 < k1

\* The calls of a list that create or write a destination entry.
CopyActions(cs) == SelectSeq(cs, LAMBDA c : c.op \in {"Mkdir", "WriteToFile"})

\* C9: when a run that is no dry run returned without error, the next run
\* over the unchanged source with the same arguments and options calls
\* neither Mkdir nor WriteToFile.
C9_SecondRunCopiesNothing ==
    (run = 2 /\ ~opt.dryrun /\ hist[1].err = "nil") => CopyActions(calls) = <<>>

\* A second run that ended after a first run that created directories and
\* wrote files.
C9_Witness ==
    /\ run = 2
    /\ ~opt.dryrun
    /\ hist[1].err = "nil"
    /\ pc = "done"
    /\ err = "nil"
    /\ \E k \in 1..Len(hist[1].calls) : hist[1].calls[k].op = "Mkdir"
    /\ \E k \in 1..Len(hist[1].calls) : hist[1].calls[k].op = "WriteToFile"
    /\ \E k \in 1..Len(report) : report[k].decision = "unchanged"

\* The calls of a list that change a file system.
Mutations(cs) == SelectSeq(cs, LAMBDA c : c.op \in {"Mkdir", "WriteToFile", "SetMtime"})

\* C10: a dry run makes no Mkdir, WriteToFile or SetMtime call, never enters
\* the restoration pass, and leaves the destination as it was.
C10_DryRunMutatesNothing ==
    opt.dryrun =>
        /\ Mutations(calls) = <<>>
        /\ \A k \in 1..Len(hist) : Mutations(hist[k].calls) = <<>>
        /\ \A k \in 1..Len(calls) : calls[k].pass # "restore"
        /\ pc # "restore"
        /\ dstfs = dstStart

\* A dry run that ended after it reported a directory to create and a file
\* to copy.
C10_Witness ==
    /\ opt.dryrun
    /\ pc = "done"
    /\ err = "nil"
    /\ \E k \in 1..Len(report) : report[k].decision = "mkdir"
    /\ \E k \in 1..Len(report) : report[k].decision = "copy"
    /\ Len(dirpairs) > 0
    /\ dstfs = dstStart

(***************************************************************************)
(* Errors                                                                  *)
(***************************************************************************)
\* The destination root was a directory when the run started.
DestinationValid == FileExists(dstStart, dstdir) /\ IsDir(dstStart, dstdir)

\* C13: when the destination root does not exist or is not a directory,
\* sync returns an error after it called nothing but FileExists and IsDir on
\* the destination root: no call on the source, no FileTree, no entry
\* processed, no change of the destination.
C13_InvalidDestinationAborts ==
    (pc # "start" /\ ~DestinationValid) =>
        /\ pc = "done"
        /\ err \in {"destination does not exist", "destination is not a directory"}
        /\ \A k \in 1..Len(calls) :
              /\ calls[k].vfs = "dst"
              /\ calls[k].path = dstdir
              /\ calls[k].op \in {"FileExists", "IsDir"}
        /\ srctree = <<>>
        /\ report = <<>>
        /\ dstfs = dstStart

\* A run over a destination root that is a regular file has returned.
C13_Witness ==
    /\ pc = "done"
    /\ FileExists(dstStart, dstdir)
    /\ ~IsDir(dstStart, dstdir)
    /\ err = "destination is not a directory"
    /\ Len(calls) = 2

\* C14: a run in which a call returned an error (any but ReadFromFile) has
\* ended with that error, and from then on it makes no call and changes
\* nothing: the entries and pairs that remain stay unprocessed.
C14_ErrorAbortsAtOnce ==
    /\ [](err # "nil" => pc = "done")
    /\ [][(err # "nil" /\ run' = run) =>
              /\ calls' = calls
              /\ dstfs' = dstfs
              /\ report' = report
              /\ err' = err]_vars

\* A run stopped in the restoration pass by a SetMtime that failed, with a
\* recorded pair left unrestored; its main pass wrote a file.
C14_Witness ==
    /\ pc = "done"
    /\ err = "setmtime"
    /\ calls[Len(calls)].pass = "restore"
    /\ rix >= 1
    /\ Len(RestoreCalls) < Len(dirpairs)
    /\ \E k \in 1..Len(calls) : calls[k].op = "WriteToFile"

\* The calls of the main pass that change the destination path dst.
MainMutations(dst) ==
    SelectSeq(calls, LAMBDA c : /\ c.pass = "main"
                                /\ c.path = dst
                                /\ c.op \in {"WriteToFile", "SetMtime"})

\* C15: for an entry whose source could not be opened sync calls neither
\* WriteToFile nor SetMtime; the failure is no error of the run, which goes
\* on with the next entry and enters the restoration pass: a run never ends
\* with an error on a ReadFromFile call.
C15_ReadFailureIsSoft ==
    /\ [](\A k \in 1..Len(report) :
            report[k].decision = "unreadable" => MainMutations(report[k].dst) = <<>>)
    /\ []((err # "nil" /\ calls # <<>>) => calls[Len(calls)].op # "ReadFromFile")
    /\ [][(/\ Len(report') = Len(report) + 1
            /\ report'[Len(report')].decision = "unreadable") =>
              /\ calls'[Len(calls')].op = "ReadFromFile"
              /\ err' = "nil"
              /\ pc' = "loop"
              /\ ix' = ix + 1
              /\ dstfs' = dstfs]_vars

\* A run that could not open d/a, went on to copy d/s/b, restored the
\* directories and returned without error.
C15_Witness ==
    /\ pc = "done"
    /\ err = "nil"
    /\ ~opt.dryrun
    /\ \E k \in 1..Len(report) :
          /\ report[k].decision = "unreadable"
          /\ \E j \in (k + 1)..Len(report) : report[j].decision = "copy"
    /\ Len(RestoreCalls) = Len(dirpairs)
    /\ Len(dirpairs) > 0

(***************************************************************************)
(* LocalFileSystem.WriteToFile                                             *)
(***************************************************************************)
\* C16: in the default mode the data goes to a new temporary file, and the
\* destination holds what it held before the call (nothing, or its complete
\* old content) in every state before the rename, also when the copy failed
\* or the process stopped; it holds the complete new content after the
\* rename, and never a part of it.
C16_DefaultWriteIsAtomic ==
    ~fnIn.inplace =>
        LET v == fnOut.value IN
        /\ v.dst \in {fnIn.old, Chunks(fnIn.n)}
        /\ (v.pc \in {"open", "copy", "rename", "stopped"} \/ v.err) => v.dst = fnIn.old
        /\ (v.pc = "returned" /\ ~v.err) => (v.dst = Chunks(fnIn.n) /\ v.tmp = Absent)
        /\ v.pc \in {"copy", "rename"} => (v.tmp # Absent /\ v.tmp = Chunks(Len(v.tmp)))

\* The process stopped while the temporary file held a part of the data:
\* the destination holds its complete old content.
C16_Witness ==
    /\ ~fnIn.inplace
    /\ fnIn.old = OldContent
    /\ fnOut.value.pc = "stopped"
    /\ fnOut.value.tmp # Absent
    /\ Len(fnOut.value.tmp) > 0
    /\ Len(fnOut.value.tmp) < fnIn.n
    /\ fnOut.value.dst = OldContent

(***************************************************************************)
(* The backends                                                            *)
(***************************************************************************)
\* Why the path cannot be found by the backend: "missing" when no entry
\* has the path, "failure" when the backend cannot tell (a directory that
\* may not be searched, a drive that cannot be reached), "found" otherwise.
Lookup(backend, tree, online, p) ==
    IF backend = "local"
    THEN IF StatErrno(tree, p) = "nil" THEN "found"
         ELSE IF StatErrno(tree, p) = "EACCES" THEN "failure"
         ELSE "missing"
    ELSE IF ~online THEN "failure"
         ELSE IF GdriveObject(tree, p) # NoNode THEN "found"
         ELSE "missing"

\* C17: for every backend FileExists returns (false, no error) only when
\* the path is not found, and returns an error when it fails for another
\* reason.
C17_FileExistsTellsMissingFromFailure ==
    \A k \in 1..Len(fnOut.value.log) :
        LET c == fnOut.value.log[k]
            why == Lookup(fnIn.backend, fnIn.tree, fnIn.online, c.path)
        IN c.op = "FileExists" =>
              /\ (~c.exists /\ ~c.err) => why = "missing"
              /\ why = "failure" => c.err
              /\ why = "found" => (c.exists /\ ~c.err)

\* The entries a list of paths names.
Named(list) == {Segments(list[i]) : i \in 1..Len(list)}

\* C18: for every backend every FileTree(root) that succeeds returns the
\* files and directories under root and nothing else, each once, whatever
\* was called before on the same object.
C18_FileTreeReturnsOnlyItsRoot ==
    \A k \in 1..Len(fnOut.value.log) :
        LET c == fnOut.value.log[k]
            top == Segments(c.path)
        IN (c.op = "FileTree" /\ ~c.err) =>
              /\ Below(fnIn.tree, top) \subseteq Named(c.list)
              /\ Named(c.list) \subseteq Below(fnIn.tree, top) \cup {top}
              /\ \A i, j \in 1..Len(c.list) : c.list[i] = c.list[j] => i = j

(***************************************************************************)
(* A dry run as the preview of the real run                                *)
(***************************************************************************)
\* What sync decided for an entry before it acted: a file that needToCopy
\* said to copy is a file to copy also when the real run then could not
\* open it.
Decided(r) ==
    [src |-> r.src,
     decision |-> IF r.decision = "unreadable" THEN "copy" ELSE r.decision]

RECURSIVE Globs(_, _)
\* The pattern, made of literal characters and "*", matches the whole of
\* name, a "*" standing for any run of characters other than the separator.
Globs(pat, name) ==
    IF pat = <<>> THEN name = <<>>
    ELSE IF Head(pat) = "*"
         THEN \/ Globs(Tail(pat), name)
              \/ name # <<>> /\ Head(name) # "/" /\ Globs(pat, Tail(name))
    ELSE name # <<>> /\ Head(name) = Head(pat) /\ Globs(Tail(pat), Tail(name))

\* The final segment of a path: its last element that is not empty, "." for
\* the empty path and "/" for a path of separators only.
FinalSegment(p) ==
    LET segs == SelectSeq(Split(p), LAMBDA v : v # <<>>) IN
    IF segs # <<>> THEN segs[Len(segs)]
    ELSE IF p = <<>> THEN <<".">> ELSE <<"/">>

\* Every pattern of the list is well formed.
AllWellFormed(exclude) == \A i \in 1..Len(exclude) : ~Malformed(exclude[i])

PatTmp == <<"*", ".", "t", "m", "p">>

\* C12: under a list of well-formed patterns excluded returns true, without
\* error, iff some pattern matches the final segment of the path; "*.tmp"
\* excludes "/a/b/c.tmp" and does not exclude "/a/b.tmp/c".
C12_ExcludedMatchesBasename ==
    (fnOut.done /\ AllWellFormed(fnIn.exclude)) =>
        /\ ~fnOut.value.err
        /\ fnOut.value.exc <=>
              \E i \in 1..Len(fnIn.exclude) :
                  Globs(fnIn.exclude[i], FinalSegment(fnIn.pathname))
        /\ fnIn = [exclude |-> <<PatTmp>>,
                   pathname |-> <<"/", "a", "/", "b", "/", "c", ".", "t", "m", "p">>]
              => fnOut.value.exc
        /\ fnIn = [exclude |-> <<PatTmp>>,
                   pathname |-> <<"/", "a", "/", "b", ".", "t", "m", "p", "/", "c">>]
              => ~fnOut.value.exc

\* "*.tmp" applied to "/a/b.tmp/c": a parent segment matches, the final
\* segment does not, and the path is not excluded.
C12_Witness ==
    /\ fnOut.done
    /\ fnIn = [exclude |-> <<PatTmp>>,
               pathname |-> <<"/", "a", "/", "b", ".", "t", "m", "p", "/", "c">>]
    /\ ~fnOut.value.exc
    /\ ~fnOut.value.err

\* C19: whenever some pattern of the exclusion list is malformed, excluded
\* returns an error, for every path and wherever the malformed pattern
\* stands in the list.
C19_MalformedPatternAlwaysFails ==
    (fnOut.done /\ ~AllWellFormed(fnIn.exclude)) => fnOut.value.err

(***************************************************************************)
(* Exclusion entry by entry                                                *)
(***************************************************************************)
\* Some pattern of opt.exclude matches the final segment of the path.
OwnNameMatches(p) ==
    \E i \in 1..Len(opt.exclude) : Globs(opt.exclude[i], FinalSegment(p))

\* C20: under well-formed patterns sync handles the entries of the source
\* tree one by one and in order; an entry is skipped iff its own final
\* segment matches a pattern, a skipped directory gets no Mkdir and no
\* DirectoryPair, and the entries below it are handled like any other: a
\* main pass that ends without error has handled every entry.
C20_ExclusionIsPerEntry ==
    AllWellFormed(opt.exclude) =>
        /\ Len(report) <= Len(srctree)
        /\ \A k \in 1..Len(report) :
              /\ report[k].src = srctree[k]
              /\ (report[k].decision = "excluded") <=> OwnNameMatches(srctree[k])
              /\ report[k].decision = "excluded" =>
                    /\ \A c \in 1..Len(calls) :
                          calls[c].op = "Mkdir" =>
                              calls[c].path # destPath(srcpath, dstdir, srctree[k])
                    /\ \A j \in 1..Len(dirpairs) : dirpairs[j].src # srctree[k]
        /\ (pc \in {"restore", "done"} /\ err = "nil") => Len(report) = Len(srctree)

\* The directory d/s was skipped under the pattern "s", and the file d/s/b
\* below it was copied to dest/d/s/b.
C20_Witness ==
    /\ opt.exclude = << <<"s">> >>
    /\ pc = "done"
    /\ err = "nil"
    /\ \E k \in 1..Len(report) :
          /\ report[k].decision = "excluded"
          /\ IsDir(srcfs, report[k].src)
          /\ \E j \in Descendants(report[k].src) :
                /\ j <= Len(report)
                /\ report[j].decision = "copy"
                /\ \E c \in 1..Len(calls) :
                      /\ calls[c].op = "WriteToFile"
                      /\ calls[c].path = report[j].dst

(***************************************************************************)
(* The handling of one entry                                               *)
(***************************************************************************)
\* The calls a step adds to the log.
NewCalls == SubSeq(calls', Len(calls) + 1, Len(calls'))

\* The step handles the current entry of the main loop.
HandlesEntry == InLoop /\ ix' = ix + 1 /\ run' = run

\* C21: for a directory entry that is not excluded, Mkdir is called on the
\* destination path iff the run is no dry run and the path does not exist
\* in the destination, no other call changes the destination, and unless
\* Mkdir fails the pair (source, destination) is recorded: directory
\* present or created, dry run or not.
C21_MkdirIffAbsentAndPairAlways ==
    [][(HandlesEntry /\ AllWellFormed(opt.exclude) /\ ~OwnNameMatches(CurSrc)
            /\ Stat(srcfs, CurSrc) # NoNode /\ srcfs[Stat(srcfs, CurSrc)].kind = "dir")
        => /\ (\E c \in 1..Len(NewCalls) :
                  NewCalls[c] = Call("Mkdir", "dst", CurDst, "main"))
               <=> (~opt.dryrun /\ Stat(dstfs, CurDst) = NoNode)
           /\ \A c \in 1..Len(NewCalls) :
                  NewCalls[c].op \in {"IsDir", "IsRegular", "FileExists", "Mkdir"}
           /\ err' = "nil" => dirpairs' = Append(dirpairs, [src |-> CurSrc, dst |-> CurDst])
           /\ err' # "nil" => (dirpairs' = dirpairs /\ ~opt.dryrun
                                /\ Stat(dstfs, CurDst) = NoNode)]_vars

\* A run that is no dry run has created one directory and found another in
\* place, and recorded a pair for both.
C21_Witness ==
    /\ ~opt.dryrun
    /\ err = "nil"
    /\ \E k, j \in 1..Len(report) :
          /\ report[k].decision = "mkdir"
          /\ report[j].decision = "present"
          /\ \E c \in 1..Len(calls) : calls[c] = Call("Mkdir", "dst", report[k].dst, "main")
          /\ \A c \in 1..Len(calls) : calls[c] # Call("Mkdir", "dst", report[j].dst, "main")
          /\ \E a, b \in 1..Len(dirpairs) :
                /\ dirpairs[a] = [src |-> report[k].src, dst |-> report[k].dst]
                /\ dirpairs[b] = [src |-> report[j].src, dst |-> report[j].dst]

\* The calls of a list from its first ReadFromFile on.
RECURSIVE FromRead(_)
FromRead(cs) ==
    IF cs = <<>> THEN <<>>
    ELSE IF Head(cs).op = "ReadFromFile" THEN cs
    ELSE FromRead(Tail(cs))

\* The four calls of a copy, in the order of lines 242-259.
CopyCalls(src, dst) ==
    << Call("ReadFromFile", "src", src, "main"), Call("WriteToFile", "dst", dst, "main"),
       Call("Mtime", "src", src, "main"), Call("SetMtime", "dst", dst, "main") >>

\* The destination is absent, or older than the source in whole seconds.
SourceIsNewer(src, dst) ==
    \/ Stat(dstfs, dst) = NoNode
    \/ Seconds(srcfs[Stat(srcfs, src)].mtime) > Seconds(dstfs[Stat(dstfs, dst)].mtime)

\* C22: outside a dry run, for a regular file that is not excluded: when
\* the destination exists and is not older than the source (in whole
\* seconds) the step makes no mutating call and leaves the destination as
\* it is; otherwise its calls after needToCopy are ReadFromFile(source),
\* WriteToFile(destination), Mtime(source), SetMtime(destination) in this
\* order, cut short only where a call fails, and after the four of them the
\* mtime of the destination file is the mtime of the source file.
C22_FileCopyOrder ==
    [][(HandlesEntry /\ ~opt.dryrun /\ AllWellFormed(opt.exclude) /\ ~OwnNameMatches(CurSrc)
            /\ Stat(srcfs, CurSrc) # NoNode /\ srcfs[Stat(srcfs, CurSrc)].kind = "file")
        => LET copy == FromRead(NewCalls)
               before == SubSeq(NewCalls, 1, Len(NewCalls) - Len(copy))
           IN /\ Mutations(before) = <<>>
              /\ ~SourceIsNewer(CurSrc, CurDst) => (copy = <<>> /\ dstfs' = dstfs)
              /\ SourceIsNewer(CurSrc, CurDst) =>
                    /\ copy # <<>>
                    /\ Len(copy) <= 4
                    /\ copy = SubSeq(CopyCalls(CurSrc, CurDst), 1, Len(copy))
                    /\ Len(copy) < 4 => (err' # "nil" \/ (Len(copy) = 1 /\ dstfs' = dstfs))
                    /\ (Len(copy) = 4 /\ err' = "nil") =>
                          /\ Stat(dstfs', CurDst) # NoNode
                          /\ dstfs'[Stat(dstfs', CurDst)].kind = "file"
                          /\ dstfs'[Stat(dstfs', CurDst)].mtime
                                 = srcfs[Stat(srcfs, CurSrc)].mtime]_vars

\* One run has overwritten a destination file older than its source, which
\* now has the mtime of the source, and a second run has left it alone.
C22_Witness ==
    /\ ~opt.dryrun
    /\ run = 2
    /\ pc = "done"
    /\ err = "nil"
    /\ \E k \in 1..Len(report) :
          /\ report[k].decision = "unchanged"
          /\ k <= Len(hist[1].report)
          /\ hist[1].report[k].decision = "copy"
          /\ hist[1].report[k].dst = report[k].dst
          /\ dstfs[Stat(dstfs, report[k].dst)].mtime = srcfs[Stat(srcfs, report[k].src)].mtime
          /\ CopyCalls(report[k].src, report[k].dst)[4] \notin {calls[c] : c \in 1..Len(calls)}
          /\ \E c \in 1..Len(hist[1].calls) :
                /\ c + 3 <= Len(hist[1].calls)
                /\ SubSeq(hist[1].calls, c, c + 3) = CopyCalls(report[k].src, report[k].dst)

(***************************************************************************)
(* A source root that is no directory                                      *)
(***************************************************************************)
\* IsDir(srcpath) returns false without error: the root is missing, or it
\* is an entry other than a directory.
RootIsNoDirectory ==
    /\ StatErrno(srcfs, srcpath) \in {"nil", "ENOENT"}
    /\ Stat(srcfs, srcpath) # NoNode => srcfs[Stat(srcfs, srcpath)].kind # "dir"

\* C23: when the source root is no directory, FileTree is not called and
\* the entries are the one path of the root; a regular file given without
\* trailing separator goes to the elements of destRoot followed by the last
\* element of the source path, where a run that is no dry run and returns
\* without error leaves the content and the mtime of the source file.
C23_SingleFileRoot ==
    RootIsNoDirectory =>
        /\ \A c \in 1..Len(calls) : calls[c].op # "FileTree"
        /\ pc \in {"loop", "restore"} => srctree = <<srcpath>>
        /\ Len(report) <= 1
        /\ \A k \in 1..Len(report) : report[k].src = srcpath
        /\ (Stat(srcfs, srcpath) # NoNode /\ srcfs[Stat(srcfs, srcpath)].kind = "file"
                /\ ~HasSuffixSlash(srcpath)) =>
              LET target == Segments(dstdir) \o LastOf(Segments(srcpath)) IN
              /\ \A k \in 1..Len(report) : report[k].dst = Join(target)
              /\ \A c \in 1..Len(calls) :
                    (calls[c].vfs = "dst" /\ calls[c].pass = "main") => calls[c].path = Join(target)
              /\ (pc = "done" /\ err = "nil" /\ ~opt.dryrun /\ Len(report) = 1
                      /\ report[1].decision = "copy") =>
                    /\ target \in DOMAIN dstfs
                    /\ dstfs[target].kind = "file"
                    /\ dstfs[target].data = srcfs[Stat(srcfs, srcpath)].data
                    /\ dstfs[target].mtime = srcfs[Stat(srcfs, srcpath)].mtime

\* The file d/a given as source root has been copied to dest/a.
C23_Witness ==
    /\ srcpath = <<"d", "/", "a">>
    /\ ~opt.dryrun
    /\ pc = "done"
    /\ err = "nil"
    /\ srctree = <<srcpath>>
    /\ Len(report) = 1
    /\ report[1].decision = "copy"
    /\ <<NameDest, NameA>> \in DOMAIN dstfs
    /\ <<NameDest, NameA>> \notin DOMAIN dstStart

(***************************************************************************)
(* Entries that are neither directories nor regular files                  *)
(***************************************************************************)
\* C24: the step that handles an entry which is neither a directory nor a
\* regular file, and is not excluded, reports a warning, calls nothing on
\* the destination (no existence check, no mutating call), records no
\* DirectoryPair, sets no error and leaves sync in its main loop, where
\* the next entry is handled.
C24_OtherEntryIsWarned ==
    [][(HandlesEntry /\ AllWellFormed(opt.exclude) /\ ~OwnNameMatches(CurSrc)
            /\ Stat(srcfs, CurSrc) # NoNode
            /\ srcfs[Stat(srcfs, CurSrc)].kind \notin {"dir", "file"})
        => /\ \A c \in 1..Len(NewCalls) :
                  NewCalls[c].vfs = "src" /\ NewCalls[c].op \in {"IsDir", "IsRegular"}
           /\ dstfs' = dstfs
           /\ dirpairs' = dirpairs
           /\ err' = "nil"
           /\ pc' = "loop"
           /\ report' = Append(report, [src |-> CurSrc, dst |-> CurDst,
                                        decision |-> "warned"])]_vars

\* A run has warned about d/o and then handled the entries after it, and
\* returned without error.
C24_Witness ==
    /\ pc = "done"
    /\ err = "nil"
    /\ ~opt.dryrun
    /\ \E k \in 1..Len(report) :
          /\ report[k].decision = "warned"
          /\ k < Len(report)
          /\ report[k + 1].decision \in {"mkdir", "copy"}

(***************************************************************************)
(* WriteToFile on a destination that is no regular file                    *)
(***************************************************************************)
\* C25: when the path exists and is no regular file, WriteToFile returns an
\* error and leaves the entry at the path, and what is below it, as it was:
\* in the default mode and in the write-in-place mode.
C25_NonRegularDestinationRefused ==
    LET old == Stat(fnIn.tree, fnIn.p) IN
    (fnOut.done /\ old # NoNode /\ fnIn.tree[old].kind # "file") =>
        /\ ~fnOut.value.ok
        /\ \A n \in DOMAIN fnIn.tree :
              IsPrefix(old, n) => (n \in DOMAIN fnOut.value.fs
                                   /\ fnOut.value.fs[n] = fnIn.tree[n])

(***************************************************************************)
(* The destination paths of a run                                          *)
(***************************************************************************)
\* The path q is the path root followed by zero or more elements.
PathUnder(root, q) ==
    \/ Clean(q) = Clean(root)
    \/ Clean(root) = Dot /\ Head(Clean(q)) # "/" /\ ~IsPrefix(<<".", ".">>, Clean(q))
    \/ IsPrefix(IF Clean(root) = <<"/">> THEN <<"/">> ELSE Clean(root) \o <<"/">>, Clean(q))

\* C26: every destination path sync calls the destination with is the
\* destination root followed by zero or more elements (absolute when the
\* root is), and a run changes nothing outside the directory that the
\* check of the destination root found.
C26_DestinationPathsInsideRoot ==
    /\ \A c \in 1..Len(calls) :
          calls[c].vfs = "dst" => PathUnder(dstdir, calls[c].path)
    /\ DestinationValid =>
          \A n \in DOMAIN dstfs :
              (n \notin DOMAIN dstStart \/ dstfs[n] # dstStart[n])
                  => IsPrefix(Stat(dstStart, dstdir), n)

\* The directory of the path exists in the destination.
ParentExists(p) == IsDir(dstfs, FilepathDir(p))

\* C27: outside a dry run, whenever sync calls Mkdir or WriteToFile on a
\* destination path, the directory of that path exists in the destination
\* at that moment (they are the first calls of their step that change the
\* destination): for every source root, with or without trailing
\* separator, and every exclusion list.
C27_ParentExistsAtCreation ==
    [][\A c \in 1..Len(NewCalls) :
          (run' = run /\ NewCalls[c].vfs = "dst" /\ NewCalls[c].op \in {"Mkdir", "WriteToFile"})
              => ParentExists(NewCalls[c].path)]_vars

(***************************************************************************)
(* The run after an interrupted copy                                       *)
(***************************************************************************)
\* The run before the current one was cut short inside the copy of a file.
AfterInterruption ==
    /\ run >= 2
    /\ hist[run - 1].err \in {"write", "stopped"}
    /\ hist[run - 1].report # <<>>
    /\ hist[run - 1].report[Len(hist[run - 1].report)].decision = "copy"

\* The entry whose copy was cut short.
Interrupted == hist[run - 1].report[Len(hist[run - 1].report)]

\* C28: when a run that is no dry run stopped after it began to write a
\* destination file and before it set the mtime of that file, the next run
\* over the unchanged source, once it returned without error, has written
\* that file again and the file has the content of its source: in the
\* default mode and in the write-in-place mode.
C28_InterruptedCopyIsRepeated ==
    (AfterInterruption /\ ~opt.dryrun /\ pc = "done" /\ err = "nil") =>
        /\ \E c \in 1..Len(calls) :
              calls[c] = Call("WriteToFile", "dst", Interrupted.dst, "main")
        /\ IsRegular(dstfs, Interrupted.dst)
        /\ dstfs[Stat(dstfs, Interrupted.dst)].data
               = srcfs[Stat(srcfs, Interrupted.src)].data

(***************************************************************************)
(* destPath over the paths FileTree returns                                *)
(***************************************************************************)
\* The entry is the root or a path LocalFileSystem.FileTree returns for an
\* entry below the root.
EnumeratedUnderRoot == \E rel \in PathRels : fnIn.srcfile = WalkUnder(fnIn.srcdir, rel)

\* C29: for every source root, also one with "." or ".." elements, and
\* every entry path enumerated under it, destPath returns a path, and the
\* elements it drops from the entry path are the kept elements of the root:
\* the entry path has at least as many kept elements and begins with them.
C29_DestPathStripsTheRoot ==
    (fnOut.done /\ EnumeratedUnderRoot) =>
        /\ ~fnOut.panic
        /\ Len(Segments(fnIn.srcfile)) >= Len(Segments(fnIn.srcdir))
        /\ IsPrefix(Segments(fnIn.srcdir), Segments(fnIn.srcfile))

(***************************************************************************)
(* The source                                                              *)
(***************************************************************************)
\* The entries of the source: the source root and what is below it.
SourceEntries(fs) ==
    [n \in {m \in DOMAIN fs : IsPrefix(Stat(fs, srcpath), m)} |-> fs[n]]

\* No call the step makes on the source is one that changes it.
ReadsTheSource ==
    \A c \in 1..Len(NewCalls) :
        (run' = run /\ NewCalls[c].vfs = "src") =>
            NewCalls[c].op \in {"IsDir", "IsRegular", "FileTree", "Mtime", "ReadFromFile"}

\* The destination root is the source root or lies below it.
DestInsideSource ==
    /\ srcfs = dstfs
    /\ Stat(srcfs, srcpath) # NoNode
    /\ Stat(dstfs, dstdir) # NoNode
    /\ IsPrefix(Stat(srcfs, srcpath), Stat(dstfs, dstdir))

=============================================================================
